---- MODULE Spec2Model ----
(***************************************************************************)
(* A model of the consensus-and-chunk core of the node:                    *)
(*   - validator selection (chain/epoch-manager/src/validator_selection.rs)*)
(*   - the flat-storage verify command (tools/flat-storage/src/commands.rs)*)
(*   - the client coordinator (chain/client/src/client.rs)                 *)
(* Each subsystem has its own specification over the shared variables.     *)
(***************************************************************************)
EXTENDS Integers, Sequences, FiniteSets, TLC

VARIABLES
    \* ---- validator selection: the arguments of proposals_to_epoch_info
    proposals,          \* Vec<ValidatorStake>, as a set of [account, stake] (distinct accounts)
    prev_epoch_info,    \* [validators: Seq, fishermen: Seq] of the previous epoch
    validator_kickout,  \* the input kickouts: account -> reason
    validator_reward,   \* account -> Balance
    epoch_config,       \* the fields of EpochConfig the selection reads
    versions,           \* [ChunkOnlyProducers, FixStakingThreshold]: the feature checks
    epoch_info,         \* the result of the call ([kind |-> "None"] before it)
    rerun               \* a second call with one more proposal: [added, epoch_info]

vsVars == <<proposals, prev_epoch_info, validator_kickout, validator_reward,
            epoch_config, versions, epoch_info, rerun>>

\* The flat-storage verify command: what it reads and what it prints
VARIABLES
    flat_storage_status,       \* "Ready" or "Creation" (any status that is not Ready)
    trie_iter,                 \* the trie's entries at the state root, in key order
    flat_state_entries_iter,   \* the flat state's entries of the shard, in key order
    printed,                   \* the last line the command printed, or its panic
    chain_store,               \* the canonical chain: [head, final_head], both heights
    flat_head,                 \* the height of the block the flat state is at
    flat_deltas                \* height -> the changes of the block at that height

\* What the move-flat-head command reads and writes besides the flat state
flatHeadVars == <<chain_store, flat_head, flat_deltas>>

fsVars == <<flat_storage_status, trie_iter, flat_state_entries_iter, printed, flatHeadVars>>

\* The client coordinator (Client in chain/client/src/client.rs) and what it reads
VARIABLES
    validator_signer,      \* Option<Arc<dyn ValidatorSigner>>: [kind |-> "None"] or [kind, account, key]
    produce_empty_blocks,  \* config.produce_empty_blocks
    world,                 \* what the epoch manager, shard tracker and catch-up answer in this run,
                           \* the headers the chain's garbage collection has removed, and the
                           \* chain store's tail and the heights it has processed
    store,                 \* the hashes of the blocks the chain has accepted
    head,                  \* chain.head(), a block hash
    latest_known,          \* chain store's LatestKnown: [height, seen]
    doomslug,              \* [tip: the tip's hash, handed: what the last handler passed to on_approval_message]
    pending_approvals,     \* LruCache<ApprovalInner, HashMap<AccountId, (Approval, ApprovalType)>>
    sharded_tx_pool,       \* shard -> set of transactions
    prev_block_to_chunk_headers_ready_for_inclusion,  \* LRU of prev hash -> (shard -> (header, chunk_producer))
    do_not_include_chunks_from,  \* LruCache<(EpochId, AccountId), ()>, least recently used first
    rebroadcasted_blocks,  \* LruCache<CryptoHash, ()>, least recently used first
    clock,                 \* StaticClock::instant(), in ticks
    last_time_head_progress_made,  \* Instant, in ticks
    catchup_state_syncs,   \* HashMap<CryptoHash, ..>: the sync hashes it has an entry for
    state_sync_adapter,    \* Arc<RwLock<SyncAdapter>>: [poisoned, running, received]
    head_rebroadcasts,     \* history: the stall rebroadcasts, [now, stall_timeout] each
    returned,              \* history: the heights a block was returned for, one entry per block
    last_call              \* history: the last operation, its arguments and its result

clientVars == <<validator_signer, produce_empty_blocks, world, store, head, latest_known,
                doomslug, pending_approvals, sharded_tx_pool,
                prev_block_to_chunk_headers_ready_for_inclusion,
                do_not_include_chunks_from, rebroadcasted_blocks, returned, last_call,
                clock, last_time_head_progress_made, catchup_state_syncs,
                state_sync_adapter, head_rebroadcasts>>

\* The stall timer and the catch-up of the client
syncVars == <<clock, last_time_head_progress_made, catchup_state_syncs, state_sync_adapter,
              head_rebroadcasts>>

vars == <<vsVars, fsVars, clientVars>>

----------------------------------------------------------------------------
(* Bounds of the model *)

NumAccounts == 3
MaxStake == 2
NumChunkOnlySeats == 1
NumKeys == 2
MaxEntries == 2
NumValues == 3

Accounts == 1..NumAccounts
\* AccountId is ordered lexicographically; the model's accounts are ordered as integers.

\* Sample configurations
SeatChoices == {1, 2}
StakeRatios == {<<2, 5>>, <<1, 2>>}
FishermenThresholds == {2}
ShardCounts == {1, 2}

----------------------------------------------------------------------------
(* A specification runs one part of the program; the variables of the other parts
   keep these values *)

IdleVS ==
    /\ proposals = {}
    /\ prev_epoch_info = [validators |-> <<>>, fishermen |-> <<>>]
    /\ validator_kickout = <<>>
    /\ validator_reward = <<>>
    /\ epoch_config = [kind |-> "None"]
    /\ versions = [kind |-> "None"]
    /\ epoch_info = [kind |-> "Idle"]
    /\ rerun = [kind |-> "Idle"]

IdleFlatHead ==
    /\ chain_store = [head |-> 0, final_head |-> 0]
    /\ flat_head = 0
    /\ flat_deltas = <<>>

IdleFS ==
    /\ flat_storage_status = "Ready"
    /\ trie_iter = <<>>
    /\ flat_state_entries_iter = <<>>
    /\ printed = [kind |-> "Idle", verified |-> 0]
    /\ IdleFlatHead

IdleSync ==
    /\ clock = 0
    /\ last_time_head_progress_made = 0
    /\ catchup_state_syncs = <<>>
    /\ state_sync_adapter = [poisoned |-> FALSE, running |-> {}, received |-> <<>>]
    /\ head_rebroadcasts = <<>>

IdleClient ==
    /\ validator_signer = [kind |-> "None"]
    /\ produce_empty_blocks = TRUE
    /\ world = [kind |-> "None"]
    /\ store = {}
    /\ head = 0
    /\ latest_known = [height |-> 0, seen |-> 0]
    /\ doomslug = [tip |-> 0, handed |-> {}]
    /\ pending_approvals = <<>>
    /\ sharded_tx_pool = <<>>
    /\ prev_block_to_chunk_headers_ready_for_inclusion = <<>>
    /\ do_not_include_chunks_from = <<>>
    /\ rebroadcasted_blocks = <<>>
    /\ returned = <<>>
    /\ last_call = [op |-> "Idle"]
    /\ IdleSync

----------------------------------------------------------------------------
(* Helpers on sequences and functions *)

Range(s) == {s[i] : i \in DOMAIN s}

Min(a, b) == IF a <= b THEN a ELSE b

None == [kind |-> "None"]

Swap(d, i, j) == [d EXCEPT ![i] = d[j], ![j] = d[i]]

\* ceil(n / d) for n >= 0, d > 0
CeilDiv(n, d) == (n + d - 1) \div d

\* F(v), with v computed once: a local of the code that is assigned, then read
Bind(v, F(_)) == CHOOSE y \in {F(x) : x \in {v}} : TRUE

----------------------------------------------------------------------------
(* OrderedValidatorStake and std::collections::BinaryHeap as the code uses it *)

\* Ord for OrderedValidatorStake: key = (stake, Reverse(account_id))
KeyLe(p, q) == p.stake < q.stake \/ (p.stake = q.stake /\ p.account >= q.account)
KeyLt(p, q) == p.stake < q.stake \/ (p.stake = q.stake /\ p.account > q.account)

\* BinaryHeap::sift_up(start, pos); positions are 1-based here
RECURSIVE SiftUp(_, _, _)
SiftUp(d, start, pos) ==
    IF pos > start /\ ~KeyLe(d[pos], d[pos \div 2])
    THEN Bind(Swap(d, pos, pos \div 2), LAMBDA x : SiftUp(x, start, pos \div 2))
    ELSE d

\* BinaryHeap::sift_down_range(pos, end) with end = len
RECURSIVE SiftDown(_, _)
SiftDown(d, pos) ==
    LET l == 2 * pos
        r == 2 * pos + 1
    IN  IF r <= Len(d)
        THEN LET c == IF KeyLe(d[l], d[r]) THEN r ELSE l
             IN  IF KeyLe(d[c], d[pos]) THEN d
                 ELSE Bind(Swap(d, pos, c), LAMBDA x : SiftDown(x, c))
        ELSE IF l = Len(d) /\ KeyLt(d[pos], d[l]) THEN Swap(d, pos, l) ELSE d

\* BinaryHeap::sift_down_to_bottom(pos): the hole goes to the bottom, then sift_up
RECURSIVE HoleToBottom(_, _)
HoleToBottom(d, pos) ==
    LET l == 2 * pos
        r == 2 * pos + 1
    IN  IF r <= Len(d)
        THEN LET c == IF KeyLe(d[l], d[r]) THEN r ELSE l
             IN  Bind(Swap(d, pos, c), LAMBDA x : HoleToBottom(x, c))
        ELSE IF l = Len(d) THEN <<Swap(d, pos, l), l>> ELSE <<d, pos>>

SiftDownToBottom(d, pos) ==
    Bind(HoleToBottom(d, pos), LAMBDA b : SiftUp(b[1], pos, b[2]))

\* BinaryHeap::rebuild, reached through collect() = BinaryHeap::from(Vec)
RECURSIVE RebuildFrom(_, _)
RebuildFrom(d, n) ==
    IF n = 0 THEN d ELSE Bind(SiftDown(d, n), LAMBDA x : RebuildFrom(x, n - 1))

\* order_proposals: the heap built from the proposals in the map's iteration order
order_proposals(vec) == RebuildFrom(vec, Len(vec) \div 2)

\* A pop that takes the last item of the heap's vector
HeapPopLast(d) == <<d[Len(d)], SubSeq(d, 1, Len(d) - 1)>>

\* BinaryHeap::pop: <<item, data>>
HeapPop(d) ==
    LET n == Len(d)
        rest == SubSeq(d, 1, n - 1)
    IN  IF n = 1 THEN <<d[1], <<>>>>
        ELSE <<d[1], Bind([rest EXCEPT ![1] = d[n]], LAMBDA x : SiftDownToBottom(x, 1))>>

\* BinaryHeap::push
HeapPush(d, x) == Bind(Append(d, x), LAMBDA pushed : SiftUp(pushed, 1, Len(pushed)))

----------------------------------------------------------------------------
(* validator_selection.rs *)

AccountsOf(vs) == {v.account : v \in vs}

\* A previous epoch whose fishermen are not looked up
account_is_fisherman_never(prev, a) == FALSE

\* EpochInfo::account_is_validator / account_is_fisherman on the previous epoch
account_is_validator(prev, a) == a \in AccountsOf(Range(prev.validators))
account_is_fisherman(prev, a) == a \in AccountsOf(Range(prev.fishermen))

StakeIn(vs, a) == (CHOOSE v \in vs : v.account = a).stake

\* Every fisherman of the previous epoch carried over
SelectAccountsAll(s, keep) == s

\* The fishermen a sequence keeps when filtered by a predicate on accounts
RECURSIVE SelectAccounts(_, _)
SelectAccounts(s, keep) ==
    IF s = <<>> THEN <<>>
    ELSE IF s[1].account \in keep THEN <<s[1]>> \o SelectAccounts(Tail(s), keep)
    ELSE SelectAccounts(Tail(s), keep)

\* proposals_with_rollover: [by_account, stake_change, fishermen]
proposals_with_rollover(props, prev, reward, kickout) ==
    LET kicked == DOMAIN kickout
        kept == {p \in props : p.account \notin kicked}
        prevV == {r \in Range(prev.validators) : r.account \notin kicked}
        keys == AccountsOf(kept) \cup AccountsOf(prevV)
        base(a) == IF a \in AccountsOf(kept) THEN StakeIn(kept, a) ELSE StakeIn(prevV, a)
        stake(a) == IF a \in AccountsOf(prevV) /\ a \in DOMAIN reward
                    THEN base(a) + reward[a] ELSE base(a)
        carried == {r.account : r \in {f \in Range(prev.fishermen) :
                                         f.account \notin kicked /\ f.account \notin keys}}
        seen == AccountsOf(props) \cup AccountsOf(Range(prev.validators))
                    \cup AccountsOf(Range(prev.fishermen))
    IN  [by_account |-> [a \in keys |-> stake(a)],
         stake_change |-> [a \in seen |->
                             IF a \in kicked THEN 0
                             ELSE IF a \in keys THEN stake(a)
                             ELSE StakeIn(Range(prev.fishermen), a)],
         fishermen |-> SelectAccounts(prev.fishermen, carried)]

\* A loop that does not return the rejected proposal to the heap
RECURSIVE SelectLoopDropping(_, _, _, _, _)
SelectLoopDropping(heap, i, validators, total_stake, ratio) ==
    IF i = 0 THEN [validators |-> validators, total_stake |-> total_stake,
                   heap |-> heap, panicked |-> FALSE]
    ELSE Bind(HeapPop(heap), LAMBDA popped :
           LET p == popped[1]
               total_stake_with_p == total_stake + p.stake
           IN  IF total_stake_with_p = 0
               THEN [validators |-> validators, total_stake |-> total_stake,
                     heap |-> popped[2], panicked |-> TRUE]
               ELSE IF p.stake * ratio[2] > ratio[1] * total_stake_with_p
               THEN Bind(<<Append(validators, p), total_stake_with_p>>, LAMBDA acc :
                      SelectLoopDropping(popped[2], i - 1, acc[1], acc[2], ratio))
               ELSE [validators |-> validators, total_stake |-> total_stake,
                     heap |-> popped[2], panicked |-> FALSE])

\* The loop of select_validators: i iterations left
RECURSIVE SelectLoop(_, _, _, _, _)
SelectLoop(heap, i, validators, total_stake, ratio) ==
    IF i = 0 THEN [validators |-> validators, total_stake |-> total_stake,
                   heap |-> heap, panicked |-> FALSE]
    ELSE Bind(HeapPop(heap), LAMBDA popped :
           LET p == popped[1]
               total_stake_with_p == total_stake + p.stake
           IN  IF total_stake_with_p = 0
               THEN \* Ratio::new panics on a zero denominator
                    [validators |-> validators, total_stake |-> total_stake,
                     heap |-> popped[2], panicked |-> TRUE]
               ELSE IF p.stake * ratio[2] > ratio[1] * total_stake_with_p
               THEN Bind(<<Append(validators, p), total_stake_with_p>>, LAMBDA acc :
                      SelectLoop(popped[2], i - 1, acc[1], acc[2], ratio))
               ELSE [validators |-> validators, total_stake |-> total_stake,
                     heap |-> HeapPush(popped[2], p), panicked |-> FALSE])

\* select_validators with a threshold two above the smallest stake when the seats fill
select_validators_plus_two(heap, max_number_selected, ratio, fix_staking_threshold) ==
    Bind(SelectLoop(heap, Min(max_number_selected, Len(heap)), <<>>, 0, ratio), LAMBDA sel :
      LET threshold ==
            IF Len(sel.validators) = max_number_selected
            THEN sel.validators[Len(sel.validators)].stake + 2
            ELSE IF fix_staking_threshold
            THEN CeilDiv(ratio[1] * sel.total_stake, ratio[2] - ratio[1])
            ELSE CeilDiv(ratio[1] * sel.total_stake, ratio[2])
      IN  [validators |-> sel.validators,
           threshold |-> IF sel.panicked THEN 0 ELSE threshold,
           heap |-> sel.heap, panicked |-> sel.panicked])

\* select_validators: [validators, threshold, heap, panicked]
select_validators(heap, max_number_selected, ratio, fix_staking_threshold) ==
    Bind(SelectLoop(heap, Min(max_number_selected, Len(heap)), <<>>, 0, ratio), LAMBDA sel :
      LET threshold ==
            IF Len(sel.validators) = max_number_selected
            THEN sel.validators[Len(sel.validators)].stake + 1
            ELSE IF fix_staking_threshold
            THEN CeilDiv(ratio[1] * sel.total_stake, ratio[2] - ratio[1])
            ELSE CeilDiv(ratio[1] * sel.total_stake, ratio[2])
      IN  [validators |-> sel.validators,
           threshold |-> IF sel.panicked THEN 0 ELSE threshold,
           heap |-> sel.heap, panicked |-> sel.panicked])

select_block_producers(heap, max_num_selected, ratio, fix) ==
    select_validators(heap, max_num_selected, ratio, fix)

select_chunk_producers(heap, max_num_selected, ratio, num_shards, fix) ==
    select_validators(heap, max_num_selected, <<ratio[1], ratio[2] * num_shards>>, fix)

\* assign_shards (crate::shard_assignment): each producer, in the order given, goes to
\* the shard with the fewest producers, then the least stake, then the smallest id.
ShardLoad(shard) == [n |-> Len(shard),
                     stake |-> IF shard = <<>> THEN 0
                               ELSE LET RECURSIVE Sum(_)
                                        Sum(s) == IF s = <<>> THEN 0 ELSE s[1].stake + Sum(Tail(s))
                                    IN Sum(shard)]

LessLoaded(a, i, b, j, by_count) ==
    LET la == ShardLoad(a)
        lb == ShardLoad(b)
    IN  IF by_count /\ la.n # lb.n THEN la.n < lb.n
        ELSE IF la.stake # lb.stake THEN la.stake < lb.stake
        ELSE i < j

RECURSIVE AssignLoop(_, _, _)
AssignLoop(cps, shards, min_per_shard) ==
    IF cps = <<>> THEN shards
    ELSE LET by_count == \E i \in DOMAIN shards : Len(shards[i]) < min_per_shard
             target == CHOOSE i \in DOMAIN shards :
                          \A j \in DOMAIN shards \ {i} :
                              LessLoaded(shards[i], i, shards[j], j, by_count)
         IN  Bind([shards EXCEPT ![target] = Append(@, cps[1])], LAMBDA assigned :
                  AssignLoop(Tail(cps), assigned, min_per_shard))

\* [ok, shards]
assign_shards(chunk_producers, num_shards, min_validators_per_shard) ==
    IF Len(chunk_producers) < num_shards * min_validators_per_shard
    THEN [ok |-> FALSE, shards |-> <<>>]
    ELSE [ok |-> TRUE,
          shards |-> AssignLoop(chunk_producers, [i \in 1..num_shards |-> <<>>],
                                min_validators_per_shard)]

\* The loop over the proposals selected for neither role, in the heap's iteration order
RECURSIVE Remainder(_, _, _, _)
Remainder(rest, acc, prev, cfg) ==
    IF rest = <<>> THEN acc
    ELSE LET p == rest[1]
             next ==
               IF p.stake >= cfg.fishermen_threshold
               THEN [acc EXCEPT !.fishermen = Append(@, p)]
               ELSE LET zeroed == [acc EXCEPT !.stake_change[p.account] = 0]
                    IN  IF account_is_validator(prev, p.account)
                           \/ account_is_fisherman(prev, p.account)
                        THEN [zeroed EXCEPT
                                !.validator_kickout =
                                    [a \in DOMAIN @ \cup {p.account} |->
                                        IF a = p.account
                                        THEN [reason |-> "NotEnoughStake", stake |-> p.stake,
                                              threshold |-> acc.threshold]
                                        ELSE @[a]],
                                !.assert_ok = @ /\ p.stake < acc.threshold]
                        ELSE zeroed
         IN  Bind(next, LAMBDA x : Remainder(Tail(rest), x, prev, cfg))

\* Validator ids of the chunk-only producers, in shard-assignment order
RECURSIVE NumberShard(_, _, _)
NumberShard(shard, all_validators, ids) ==
    IF shard = <<>> THEN [all_validators |-> all_validators, ids |-> ids]
    ELSE LET v == shard[1]
             known == {i \in DOMAIN all_validators : all_validators[i].account = v.account}
         IN  IF known = {}
             THEN NumberShard(Tail(shard), Append(all_validators, v),
                              Append(ids, Len(all_validators)))
             ELSE NumberShard(Tail(shard), all_validators,
                              Append(ids, (CHOOSE i \in known : TRUE) - 1))

RECURSIVE NumberShards(_, _, _)
NumberShards(shards, all_validators, settlement) ==
    IF shards = <<>> THEN [all_validators |-> all_validators, settlement |-> settlement]
    ELSE Bind(NumberShard(shards[1], all_validators, <<>>), LAMBDA one :
           NumberShards(Tail(shards), one.all_validators, Append(settlement, one.ids)))

\* The settlement without ChunkOnlyProducers: block producers round-robin over the shards
RECURSIVE RoundRobin(_, _, _, _)
RoundRobin(shard, num_shards, id, cfg_and_n) ==
    IF shard > num_shards THEN <<>>
    ELSE LET n == cfg_and_n[2]
             k == Min(cfg_and_n[1], n)
         IN  <<[i \in 1..k |-> (id + i - 1) % n]>>
               \o RoundRobin(shard + 1, num_shards, (id + k) % n, cfg_and_n)

NoEpochInfo(kind) ==
    [kind |-> kind, validators |-> <<>>, block_producers_settlement |-> <<>>,
     chunk_producers_settlement |-> <<>>, validator_to_index |-> <<>>, fishermen |-> <<>>,
     fishermen_to_index |-> <<>>, stake_change |-> <<>>,
     validator_kickout |-> <<>>, seat_price |-> 0, assert_ok |-> TRUE]

\* Positions counted from 1
IndexOfFromOne(vs) ==
    [a \in AccountsOf(Range(vs)) |-> CHOOSE i \in DOMAIN vs : vs[i].account = a]

\* The map from the accounts of a list of stakes to their positions, counted from 0
IndexOf(vs) ==
    [a \in AccountsOf(Range(vs)) |-> (CHOOSE i \in DOMAIN vs : vs[i].account = a) - 1]

\* The iteration orders of a map of proposals that are already heap-ordered. Every
\* heap that BinaryHeap::from builds is heap-ordered and is left as it is when built
\* again, so these orders yield every heap that any iteration order yields.
RECURSIVE HeapOrdered(_, _)
HeapOrdered(prefix, rest) ==
    IF rest = {} THEN {prefix}
    ELSE UNION {HeapOrdered(Append(prefix, x), rest \ {x}) :
                    x \in {y \in rest : prefix = <<>>
                                          \/ KeyLe(y, prefix[(Len(prefix) + 1) \div 2])}}

\* The heaps order_proposals can build from a map of proposals: HashMap::values
\* iterates in an order the map's hasher decides
ProposalHeaps(by_account) ==
    {order_proposals(vec) :
        vec \in HeapOrdered(<<>>, {[account |-> a, stake |-> by_account[a]] :
                                      a \in DOMAIN by_account})}

\* proposals_to_epoch_info; `heap` is the heap order_proposals built, both times, from
\* the one map of proposals
proposals_to_epoch_info(cfg, prev, props, kickout, reward, ver, heap) ==
    LET rolled == proposals_with_rollover(props, prev, reward, kickout)
        max_bp_selected == cfg.num_block_producer_seats
    IN
    Bind(select_block_producers(heap, max_bp_selected, cfg.minimum_stake_ratio,
                                ver.FixStakingThreshold), LAMBDA bp :
    Bind(IF ver.ChunkOnlyProducers
         THEN select_chunk_producers(heap,
                  max_bp_selected + cfg.num_chunk_only_producer_seats,
                  cfg.minimum_stake_ratio, cfg.num_shards, ver.FixStakingThreshold)
         ELSE bp, LAMBDA cp :
    Bind(Min(bp.threshold, cp.threshold), LAMBDA threshold :
    Bind(Remainder(cp.heap,
                   [fishermen |-> rolled.fishermen, stake_change |-> rolled.stake_change,
                    validator_kickout |-> kickout, threshold |-> threshold,
                    assert_ok |-> TRUE],
                   prev, cfg), LAMBDA rem :
    Bind(assign_shards(cp.validators, cfg.num_shards, cfg.minimum_validators_per_shard),
         LAMBDA assigned :
    Bind(NumberShards(assigned.shards, bp.validators, <<>>), LAMBDA numbered :
      LET block_producers_settlement == [i \in DOMAIN bp.validators |-> i - 1]
          all_validators == IF ver.ChunkOnlyProducers THEN numbered.all_validators
                            ELSE bp.validators
      IN  IF bp.panicked \/ cp.panicked THEN NoEpochInfo("Panic")
          ELSE IF ver.ChunkOnlyProducers /\ ~assigned.ok
          THEN NoEpochInfo("NotEnoughValidators")
          ELSE IF ~ver.ChunkOnlyProducers /\ cp.validators = <<>>
          THEN NoEpochInfo("NotEnoughValidators")
          ELSE [kind |-> "Ok",
                validators |-> all_validators,
                block_producers_settlement |-> block_producers_settlement,
                chunk_producers_settlement |->
                    IF ver.ChunkOnlyProducers THEN numbered.settlement
                    ELSE RoundRobin(1, cfg.num_shards, 0,
                                    <<cfg.num_block_producer_seats_per_shard,
                                      Len(block_producers_settlement)>>),
                validator_to_index |-> IndexOf(all_validators),
                fishermen |-> rem.fishermen,
                fishermen_to_index |-> IndexOf(rem.fishermen),
                stake_change |-> rem.stake_change,
                validator_kickout |-> rem.validator_kickout,
                seat_price |-> threshold,
                assert_ok |-> rem.assert_ok]))))))

----------------------------------------------------------------------------
(* tools/flat-storage commands.rs: FlatStorageCommand::verify *)

Keys == 1..NumKeys
Values == 1..NumValues

\* The length of a value; values 1 and 3 are two values of one length
ValueLen(v) == (v % 2) + 1

\* near_primitives::hash::hash of a value, taken as free of collisions
Hash(v) == v

\* FlatStateValue::to_value_ref
to_value_ref(v) == [length |-> ValueLen(v), hash |-> Hash(v)]

ValueRefs == [length : {ValueLen(v) : v \in Values}, hash : {Hash(v) : v \in Values}]

\* The sequences of at most MaxEntries entries with strictly increasing keys
RECURSIVE EntriesFrom(_, _, _)
EntriesFrom(first_key, n, payloads) ==
    IF n = 0 THEN {<<>>}
    ELSE {<<>>} \cup UNION {{<<[key |-> k, value |-> v]>> \o rest :
                                 rest \in EntriesFrom(k + 1, n - 1, payloads)} :
                             k \in first_key..NumKeys, v \in payloads}

\* The loop over std::iter::zip(trie_iter, flat_state_entries_iter)
RECURSIVE VerifyLoop(_, _, _)
VerifyLoop(trie, flat, verified) ==
    IF trie = <<>> \/ flat = <<>> THEN [success |-> TRUE, verified |-> verified]
    ELSE LET item_trie == trie[1]
             item_flat == flat[1]
             value_ref == item_flat.value
         IN  IF item_trie.key # item_flat.key
                \/ ValueLen(item_trie.value) # value_ref.length
                \/ Hash(item_trie.value) # value_ref.hash
             THEN [success |-> FALSE, verified |-> verified + 1]
             ELSE VerifyLoop(Tail(trie), Tail(flat), verified + 1)

NothingPrinted == [kind |-> "None", verified |-> 0]

InitFS ==
    /\ flat_storage_status \in {"Ready", "Creation"}
    /\ trie_iter \in EntriesFrom(1, MaxEntries, Values)
    /\ flat_state_entries_iter \in EntriesFrom(1, MaxEntries, ValueRefs)
    /\ printed = NothingPrinted
    /\ IdleFlatHead
    /\ IdleVS
    /\ IdleClient

Verify ==
    /\ printed = NothingPrinted
    /\ printed' =
          IF flat_storage_status # "Ready" THEN [kind |-> "Panic", verified |-> 0]
          ELSE LET res == VerifyLoop(trie_iter, flat_state_entries_iter, 0)
               IN  [kind |-> IF res.success THEN "Success" ELSE "FAILED",
                    verified |-> res.verified]
    /\ UNCHANGED <<flat_storage_status, trie_iter, flat_state_entries_iter>>
    /\ UNCHANGED flatHeadVars
    /\ UNCHANGED <<vsVars, clientVars>>

NextFS == Verify

SpecFS == InitFS /\ [][NextFS]_vars

----------------------------------------------------------------------------
(* The flat-storage move-flat-head command.  The chain is the canonical chain of the
   heights 0..head, of which 0..final_head are final; the shard has a delta for every
   block above its flat head. *)

MaxChainHeight == 2

\* A delta writes or deletes (None) one key
DeltaChanges == [key : Keys, value : {r \in ValueRefs : r.length = ValueLen(r.hash)} \cup {None}]

RECURSIVE SortedByKey(_)
SortedByKey(entries) ==
    IF entries = {} THEN <<>>
    ELSE LET first == CHOOSE e \in entries : \A o \in entries : e.key <= o.key
         IN  <<first>> \o SortedByKey(entries \ {first})

\* FlatStateChanges::apply_to_flat_state
apply_to_flat_state(flat, changes) ==
    LET kept == {flat[i] : i \in {j \in DOMAIN flat : flat[j].key # changes.key}}
    IN  SortedByKey(IF changes.value = None THEN kept
                    ELSE kept \cup {[key |-> changes.key, value |-> changes.value]})

RECURSIVE ApplyDeltas(_, _)
ApplyDeltas(flat, deltas) ==
    IF deltas = <<>> THEN flat
    ELSE ApplyDeltas(apply_to_flat_state(flat, Head(deltas).changes), Tail(deltas))

\* ChainStore::get_block_header_by_height: the canonical chain has a block at every height
\* up to its head
get_block_header_by_height(height) ==
    IF height <= chain_store.head THEN [kind |-> "Ok", height |-> height]
    ELSE [kind |-> "Err", height |-> height]

\* FlatStorage::update_flat_head(hash, strict): the deltas of the blocks after the flat
\* head up to the new one are applied in order and removed; a block that is not after
\* the flat head moves nothing
update_flat_head(f, height) ==
    IF height <= f.flat_head THEN f
    ELSE [flat_head |-> height,
          flat |-> ApplyDeltas(f.flat, SelectSeq(f.deltas, LAMBDA d : d.height <= height)),
          deltas |-> SelectSeq(f.deltas, LAMBDA d : d.height > height)]

\* FlatStorageCommand::move_flat_head; `printed` keeps the height asked for and whether
\* the header was found and printed
MoveFlatHead ==
    \E new_flat_head_height \in 0..MaxChainHeight + 1 :
        LET header == get_block_header_by_height(new_flat_head_height)
            moved == update_flat_head([flat_head |-> flat_head,
                                       flat |-> flat_state_entries_iter,
                                       deltas |-> flat_deltas],
                                      new_flat_head_height)
        IN  /\ flat_storage_status = "Ready"
            /\ printed' = [kind |-> IF header.kind = "Ok" THEN "Header" ELSE "Error",
                           height |-> new_flat_head_height]
            /\ flat_head' = IF header.kind = "Ok" THEN moved.flat_head ELSE flat_head
            /\ flat_state_entries_iter' =
                  IF header.kind = "Ok" THEN moved.flat ELSE flat_state_entries_iter
            /\ flat_deltas' = IF header.kind = "Ok" THEN moved.deltas ELSE flat_deltas
            /\ UNCHANGED <<flat_storage_status, trie_iter, chain_store>>
            /\ UNCHANGED <<vsVars, clientVars>>

\* A Ready shard whose flat head is at or below the final head, with a delta for every
\* block above the flat head
InitFlatHead ==
    /\ flat_storage_status = "Ready"
    /\ trie_iter = <<>>
    /\ flat_state_entries_iter \in EntriesFrom(1, 1, {r \in ValueRefs : r.length = ValueLen(r.hash)})
    /\ printed = NothingPrinted
    /\ \E h \in 0..MaxChainHeight : \E final \in 0..h : \E flat \in 0..final :
          /\ chain_store = [head |-> h, final_head |-> final]
          /\ flat_head = flat
          /\ \E changes \in [1..(h - flat) -> DeltaChanges] :
                flat_deltas = [i \in 1..(h - flat) |->
                                  [height |-> flat + i, changes |-> changes[i]]]
    /\ IdleVS
    /\ IdleClient

NextFlatHead == MoveFlatHead

SpecFlatHead == InitFlatHead /\ [][NextFlatHead]_vars

----------------------------------------------------------------------------
(* The specification of validator selection: the arguments are drawn in the
   initial state, Select applies the function, Reselect applies it again with
   one more proposal. *)

NoRerun == [added |-> None, epoch_info |-> None]

EmptyMap == <<>>

\* An account that was a validator of the previous epoch and makes no proposal
Incumbent == NumAccounts + 1

\* Previous epochs with the kickouts and rewards computed at their end
PrevEpochs ==
    {[prev |-> [validators |-> <<>>, fishermen |-> <<>>],
      kickout |-> EmptyMap, reward |-> EmptyMap],
     [prev |-> [validators |-> <<[account |-> 1, stake |-> 2],
                                 [account |-> Incumbent, stake |-> 2]>>,
                fishermen |-> <<[account |-> 2, stake |-> 2]>>],
      kickout |-> EmptyMap, reward |-> (1 :> 1)],
     [prev |-> [validators |-> <<[account |-> 1, stake |-> 2],
                                 [account |-> Incumbent, stake |-> 2]>>,
                fishermen |-> <<[account |-> 2, stake |-> 2]>>],
      kickout |-> (1 :> [reason |-> "Unstaked"]), reward |-> EmptyMap]}

EpochConfigs ==
    {[num_block_producer_seats |-> seats,
      num_block_producer_seats_per_shard |-> seats,
      num_chunk_only_producer_seats |-> NumChunkOnlySeats,
      minimum_validators_per_shard |-> 1,
      minimum_stake_ratio |-> ratio,
      fishermen_threshold |-> ft,
      num_shards |-> ns] :
        seats \in SeatChoices, ratio \in StakeRatios,
        ft \in FishermenThresholds, ns \in ShardCounts}

InitVS ==
    \* an account makes no proposal (-1), or proposes a stake; a stake of 0 is how it unstakes
    /\ \E f \in [Accounts -> -1..MaxStake] :
          proposals = {[account |-> a, stake |-> f[a]] : a \in {x \in Accounts : f[x] >= 0}}
    /\ \E e \in PrevEpochs :
          /\ prev_epoch_info = e.prev
          /\ validator_kickout = e.kickout
          /\ validator_reward = e.reward
    /\ epoch_config \in EpochConfigs
    /\ versions \in [ChunkOnlyProducers : BOOLEAN, FixStakingThreshold : BOOLEAN]
    /\ epoch_info = None
    /\ rerun = NoRerun
    /\ IdleFS
    /\ IdleClient

RolledOver(props) ==
    proposals_with_rollover(props, prev_epoch_info, validator_reward, validator_kickout)

Select ==
    /\ epoch_info = None
    /\ \E heap \in ProposalHeaps(RolledOver(proposals).by_account) :
          epoch_info' = proposals_to_epoch_info(epoch_config, prev_epoch_info, proposals,
                                                validator_kickout, validator_reward,
                                                versions, heap)
    /\ UNCHANGED <<proposals, prev_epoch_info, validator_kickout, validator_reward,
                   epoch_config, versions, rerun>>
    /\ UNCHANGED <<fsVars, clientVars>>

\* The number of seats of the selection that decides the validator set
MaxSelected(cfg, ver) ==
    IF ver.ChunkOnlyProducers
    THEN cfg.num_block_producer_seats + cfg.num_chunk_only_producer_seats
    ELSE cfg.num_block_producer_seats

\* Accounts that neither proposed nor appear in the previous epoch or its kickouts
FreshAccounts ==
    Accounts \ (AccountsOf(proposals) \cup AccountsOf(Range(prev_epoch_info.validators))
                  \cup AccountsOf(Range(prev_epoch_info.fishermen))
                  \cup DOMAIN validator_kickout)

\* The second and third calls of test_validator_assignment_ratio_condition, as built
\* with protocol_feature_fix_staking_threshold: the same arguments and one more
\* proposal, staking the seat price or one less
Reselect ==
    /\ epoch_info.kind = "Ok"
    /\ rerun = NoRerun
    /\ versions.FixStakingThreshold
    /\ Len(epoch_info.validators) < MaxSelected(epoch_config, versions)
    /\ \E a \in FreshAccounts, s \in {epoch_info.seat_price, epoch_info.seat_price - 1} :
          /\ s > 0
          /\ LET added == [account |-> a, stake |-> s]
                 more == proposals \cup {added}
             IN  \E heap \in ProposalHeaps(RolledOver(more).by_account) :
                    rerun' = [added |-> added,
                              epoch_info |->
                                  proposals_to_epoch_info(epoch_config, prev_epoch_info, more,
                                                          validator_kickout, validator_reward,
                                                          versions, heap)]
    /\ UNCHANGED <<proposals, prev_epoch_info, validator_kickout, validator_reward,
                   epoch_config, versions, epoch_info>>
    /\ UNCHANGED <<fsVars, clientVars>>

NextVS == Select \/ Reselect

SpecVS == InitVS /\ [][NextVS]_vars

\* A second call with the same arguments but for one proposal, whose stake is larger
Restake ==
    /\ epoch_info.kind = "Ok"
    /\ rerun = NoRerun
    \* the proposal of an account that the first call gave a role
    /\ \E p \in {q \in proposals : \/ \E v \in Range(epoch_info.validators) :
                                         v.account = q.account
                                    \/ \E f \in Range(epoch_info.fishermen) :
                                         f.account = q.account} :
       \E stake \in (p.stake + 1)..(MaxStake + 1) :
          LET raised == [account |-> p.account, stake |-> stake]
              more == (proposals \ {p}) \cup {raised}
          IN  \E heap \in ProposalHeaps(RolledOver(more).by_account) :
                 rerun' = [added |-> raised,
                           epoch_info |->
                               proposals_to_epoch_info(epoch_config, prev_epoch_info, more,
                                                       validator_kickout, validator_reward,
                                                       versions, heap)]
    /\ UNCHANGED <<proposals, prev_epoch_info, validator_kickout, validator_reward,
                   epoch_config, versions, epoch_info>>
    /\ UNCHANGED <<fsVars, clientVars>>

\* FixStakingThreshold decides the threshold only, which no role depends on
InitRestake == InitVS /\ versions.FixStakingThreshold

NextRestake == Select \/ Restake

SpecRestake == InitRestake /\ [][NextRestake]_vars

----------------------------------------------------------------------------
(* Claims about validator selection *)

\* C4 (as stated): the result of proposals_to_epoch_info is the same in every field,
\* the order of the fishermen included, whatever order the hash map of proposals is
\* iterated in and whatever layout the binary heap built from it has.
C4_Deterministic ==
    epoch_info # None =>
        \A heap \in ProposalHeaps(RolledOver(proposals).by_account) :
            proposals_to_epoch_info(epoch_config, prev_epoch_info, proposals,
                                    validator_kickout, validator_reward, versions, heap)
                = epoch_info

SeatsFilled == Len(epoch_info.validators) = MaxSelected(epoch_config, versions)

\* C5 (as stated): in every EpochInfo returned, every validator has stake >= seat_price.
C5_StakeAtLeastSeatPrice ==
    epoch_info.kind = "Ok" =>
        \A i \in DOMAIN epoch_info.validators :
            epoch_info.validators[i].stake >= epoch_info.seat_price

\* C5 (amended): in every EpochInfo returned, every validator has stake >= seat_price - 1
\* when the seats of the selection were all filled, and stake >= seat_price when seats
\* were left unfilled and FixStakingThreshold is disabled.
C5_StakeAgainstSeatPrice ==
    epoch_info.kind = "Ok" =>
        \A i \in DOMAIN epoch_info.validators :
            /\ SeatsFilled => epoch_info.validators[i].stake >= epoch_info.seat_price - 1
            /\ ~SeatsFilled /\ ~versions.FixStakingThreshold
                  => epoch_info.validators[i].stake >= epoch_info.seat_price

\* A selection without FixStakingThreshold that the stake ratio stopped, leaving a
\* proposal unselected and the last validator exactly at the seat price
C5_Witness ==
    /\ epoch_info.kind = "Ok"
    /\ ~versions.FixStakingThreshold
    /\ ~SeatsFilled
    /\ Len(epoch_info.validators) >= 2
    /\ epoch_info.fishermen # <<>>
    /\ epoch_info.validators[Len(epoch_info.validators)].stake = epoch_info.seat_price

AddedIsValidator ==
    rerun.added.account \in AccountsOf(Range(rerun.epoch_info.validators))

\* C6 (as stated): after a selection with FixStakingThreshold that left seats unfilled
\* and returned seat price T, the same call with one more proposal makes the new account
\* a validator when it stakes exactly T and not when it stakes T - 1.
C6_SeatPriceIsExact ==
    (rerun # NoRerun /\ rerun.epoch_info.kind = "Ok") =>
        /\ rerun.added.stake = epoch_info.seat_price => AddedIsValidator
        /\ rerun.added.stake = epoch_info.seat_price - 1 => ~AddedIsValidator

Ok == epoch_info.kind = "Ok"

ValidatorAccounts(info) == AccountsOf(Range(info.validators))

FishermenAccounts(info) == AccountsOf(Range(info.fishermen))

PrevValidators == AccountsOf(Range(prev_epoch_info.validators))

PrevFishermen == AccountsOf(Range(prev_epoch_info.fishermen))

\* The accounts of the previous epoch and of the proposals
SeenAccounts == AccountsOf(proposals) \cup PrevValidators \cup PrevFishermen

\* C14: in every EpochInfo returned, an account of the previous epoch or of the proposals
\* has at most one of the roles validator, fisherman, kicked out; no account of the input
\* kickouts is a validator or a fisherman, and no fisherman is a validator
C14_RolesExclusive ==
    Ok =>
        LET V == ValidatorAccounts(epoch_info)
            F == FishermenAccounts(epoch_info)
            K == DOMAIN epoch_info.validator_kickout
        IN  /\ \A a \in SeenAccounts :
                  Cardinality({r \in {"V", "F", "K"} :
                                  \/ r = "V" /\ a \in V
                                  \/ r = "F" /\ a \in F
                                  \/ r = "K" /\ a \in K}) <= 1
            /\ DOMAIN validator_kickout \cap (V \cup F) = {}
            /\ DOMAIN validator_kickout \subseteq K
            /\ V \cap F = {}
            /\ V \cup F \subseteq SeenAccounts

\* A result with a validator, a fisherman carried over, an account kicked out on input
\* that proposed again and an account with no role
C14_Witness ==
    /\ Ok
    /\ ValidatorAccounts(epoch_info) # {}
    /\ FishermenAccounts(epoch_info) \cap PrevFishermen # {}
    /\ DOMAIN validator_kickout \cap AccountsOf(proposals) # {}
    /\ SeenAccounts \ (ValidatorAccounts(epoch_info) \cup FishermenAccounts(epoch_info)
                           \cup DOMAIN epoch_info.validator_kickout) # {}

\* p comes before q in the order of selection: more stake, or the same and a smaller id
SelectedBefore(p, q) == p.stake > q.stake \/ (p.stake = q.stake /\ p.account < q.account)

\* C15: in every EpochInfo returned, no account is twice in validators,
\* validator_to_index maps validators[i]'s account to i, block_producers_settlement is
\* 0, 1, .., B-1 with validators[0..B-1] in selection order (stake descending, account id
\* ascending on ties) and before every other validator in that order, and every id of
\* chunk_producers_settlement is below the number of validators
C15_ValidatorIds ==
    Ok =>
        LET v == epoch_info.validators
            B == Len(epoch_info.block_producers_settlement)
        IN  /\ \A i, j \in DOMAIN v : i # j => v[i].account # v[j].account
            /\ DOMAIN epoch_info.validator_to_index = ValidatorAccounts(epoch_info)
            /\ \A i \in DOMAIN v : epoch_info.validator_to_index[v[i].account] = i - 1
            /\ B <= Len(v)
            /\ \A i \in 1..B : epoch_info.block_producers_settlement[i] = i - 1
            /\ \A i \in 1..B : \A j \in DOMAIN v : i < j => SelectedBefore(v[i], v[j])
            /\ \A s \in DOMAIN epoch_info.chunk_producers_settlement :
                  \A k \in DOMAIN epoch_info.chunk_producers_settlement[s] :
                      epoch_info.chunk_producers_settlement[s][k] \in 0..(Len(v) - 1)

\* Two block producers of equal stake and a chunk-only producer after them
C15_Witness ==
    /\ Ok
    /\ Len(epoch_info.block_producers_settlement) >= 2
    /\ Len(epoch_info.validators) > Len(epoch_info.block_producers_settlement)
    /\ epoch_info.validators[1].stake = epoch_info.validators[2].stake

\* The stake an account enters the selection or the fishermen with: its proposal's stake,
\* or else the stake it had, plus its reward if it was a validator
AdjustedStake(a) ==
    LET base == IF a \in AccountsOf(proposals) THEN StakeIn(proposals, a)
                ELSE IF a \in PrevValidators THEN StakeIn(Range(prev_epoch_info.validators), a)
                ELSE StakeIn(Range(prev_epoch_info.fishermen), a)
    IN  IF a \in PrevValidators /\ a \in DOMAIN validator_reward
        THEN base + validator_reward[a] ELSE base

StakeChangeCoversRoles ==
    /\ DOMAIN epoch_info.stake_change = SeenAccounts
    /\ \A x \in Range(epoch_info.validators) \cup Range(epoch_info.fishermen) :
          /\ epoch_info.stake_change[x.account] = x.stake
          /\ x.stake = AdjustedStake(x.account)

Unstaked(a) == \E p \in proposals : p.account = a /\ p.stake = 0

C17_ExcludedBelowThreshold ==
    Ok =>
        /\ \A a \in (PrevValidators \cup PrevFishermen) \ ValidatorAccounts(epoch_info) :
              a \in DOMAIN validator_kickout \/ AdjustedStake(a) < epoch_info.seat_price
        /\ \A a \in DOMAIN epoch_info.validator_kickout :
              epoch_info.validator_kickout[a].reason = "NotEnoughStake" =>
                  epoch_info.validator_kickout[a].stake
                      < epoch_info.validator_kickout[a].threshold
        /\ epoch_info.assert_ok

\* C18: replacing the proposal of an account by one of a strictly larger stake, all
\* other arguments equal, never demotes the account: a validator of the first result is
\* a validator of the second, a fisherman of the first is a validator or a fisherman of
\* the second
C18_MoreStakeNeverDemotes ==
    (Ok /\ rerun # NoRerun /\ rerun.epoch_info.kind = "Ok") =>
        LET a == rerun.added.account
        IN  /\ a \in ValidatorAccounts(epoch_info) => a \in ValidatorAccounts(rerun.epoch_info)
            /\ a \in FishermenAccounts(epoch_info) =>
                  a \in ValidatorAccounts(rerun.epoch_info)
                           \cup FishermenAccounts(rerun.epoch_info)

\* A fisherman became a validator with more stake, and a validator of the first result
\* lost its seat to it
C18_Witness ==
    /\ Ok
    /\ rerun # NoRerun
    /\ rerun.epoch_info.kind = "Ok"
    /\ rerun.added.account \in FishermenAccounts(epoch_info)
    /\ rerun.added.account \in ValidatorAccounts(rerun.epoch_info)
    /\ ValidatorAccounts(epoch_info) \ ValidatorAccounts(rerun.epoch_info) # {}

----------------------------------------------------------------------------
(* Claims about the flat-storage verify command *)

\* The (key, value length, value hash) triples of the trie's and the flat state's entries
TrieTriples ==
    [i \in DOMAIN trie_iter |->
        <<trie_iter[i].key, ValueLen(trie_iter[i].value), Hash(trie_iter[i].value)>>]

FlatTriples ==
    [i \in DOMAIN flat_state_entries_iter |->
        <<flat_state_entries_iter[i].key, flat_state_entries_iter[i].value.length,
          flat_state_entries_iter[i].value.hash>>]

\* C7 (as stated): verify prints "Success - verified N nodes" only if the flat entries
\* and the trie entries are the same sequence of (key, length, hash) triples and N is
\* their common length; any difference, one side holding entries the other lacks
\* included, is printed as FAILED.
C7_SuccessIffSameEntries ==
    printed.kind \in {"Success", "FAILED"} =>
        /\ printed.kind = "Success" <=> TrieTriples = FlatTriples
        /\ printed.kind = "Success" => printed.verified = Len(trie_iter)

----------------------------------------------------------------------------
(* The client coordinator: bounds *)

MaxHeight == 3
MaxReceived == 1

----------------------------------------------------------------------------
(* What the client reads: the blocks the network has, the epoch manager,
   the shard tracker.  Block hashes are small integers. *)

Genesis == 0
BlockA1 == 1
BlockB1 == 2
BlockB2 == 3
Orphan == 4

\* Genesis <- A1 and Genesis <- B1 <- B2: two branches
Blocks == {Genesis, BlockA1, BlockB1, BlockB2}

BlockHeight(b) == IF b = Genesis THEN 0 ELSE IF b = BlockB2 THEN 2 ELSE 1

PrevHash(b) == IF b = BlockB2 THEN BlockB1 ELSE Genesis

\* CryptoHash::default(): the hash of no block
DefaultHash == 5

\* header.last_final_block(): BlockB2 makes the genesis block final, the blocks before
\* it have no final block yet
last_final_block(b) == IF b = BlockB2 THEN Genesis ELSE DefaultHash

Shards == {1, 2}

\* Transactions 1, 2, 4 belong to shard 1 and transaction 3 to shard 2
Transactions == 1..4

\* block.chunks(): per shard the chunk's height_included and its transactions;
\* a block that has no new chunk for a shard carries the previous block's chunk
BlockChunks(b) ==
    CASE b = BlockA1 -> [s \in Shards |-> [height_included |-> 1,
                                           transactions |-> IF s = 1 THEN {1, 2} ELSE {3}]]
      [] b = BlockB1 -> [s \in Shards |-> IF s = 1
                                          THEN [height_included |-> 1, transactions |-> {1}]
                                          ELSE [height_included |-> 0, transactions |-> {}]]
      [] b = BlockB2 -> [s \in Shards |-> IF s = 1
                                          THEN [height_included |-> 2, transactions |-> {4}]
                                          ELSE [height_included |-> 0, transactions |-> {}]]
      [] OTHER -> [s \in Shards |-> [height_included |-> 0, transactions |-> {}]]

Me == 1

\* The world has two block producers (accounts 1 and 2)
num_block_producer_seats == 2
\* Account 4 is never a validator
Peers == {2, 3, 4}

EpochLength == 2

EpochOfHeight(h) == (h \div EpochLength) + 1

\* The epoch of a block is decided by its predecessor
get_epoch_id_from_prev_block(prev) == EpochOfHeight(BlockHeight(prev) + 1)

get_next_epoch_id_from_prev_block(prev) == get_epoch_id_from_prev_block(prev) + 1

\* header.epoch_id() of a block of the chain
EpochOfBlock(b) == IF b = Genesis THEN 1 ELSE get_epoch_id_from_prev_block(PrevHash(b))

is_next_block_epoch_start(prev) == get_epoch_id_from_prev_block(prev) # EpochOfBlock(prev)

get_block_producer(epoch_id, height) == IF (height + epoch_id) % 3 = 0 THEN 2 ELSE Me

get_chunk_producer(epoch_id, height, shard_id) ==
    IF (height + shard_id) % 2 = 1 THEN Me ELSE (height % 2) + 2

\* Account 3 joins the validators in the second epoch
EpochValidators(epoch_id) == IF epoch_id = 1 THEN {1, 2} ELSE {1, 2, 3}

\* Validators rotate their keys every epoch
get_validator_by_account_id(epoch_id, account_id) == 10 * account_id + epoch_id

PROTOCOL_VERSION == 64

get_epoch_protocol_version(epoch_id) ==
    IF world.upgraded /\ epoch_id >= 2 THEN PROTOCOL_VERSION + 1 ELSE PROTOCOL_VERSION

prev_block_is_caught_up(prev) == world.caught_up

\* ShardTracker: with is_me the node's own tracking configuration counts as well
cares_about_shard_this_or_next_epoch(shard_id, is_me) ==
    shard_id \in world.assigned \/ (is_me /\ shard_id \in world.tracked)

\* StaticClock::utc() when a block is produced
Timestamps == {7}

MapPut(f, k, v) == [x \in DOMAIN f \cup {k} |-> IF x = k THEN v ELSE f[x]]

----------------------------------------------------------------------------
(* Client: chunk headers ready for inclusion, and block production *)

IsBanned(epoch_id, chunk_producer) ==
    \E i \in DOMAIN do_not_include_chunks_from :
        do_not_include_chunks_from[i] = <<epoch_id, chunk_producer>>

CHUNK_HEADERS_FOR_INCLUSION_CACHE_SIZE == 2048
NUM_EPOCH_CHUNK_PRODUCERS_TO_KEEP_IN_BLOCKLIST == 1000

\* An LruCache of keys and values is the sequence of its entries, the least recently
\* used first. LruCache::contains and LruCache::peek leave the order as it is
contains(cache, key) == \E i \in DOMAIN cache : cache[i].key = key

peek(cache, key) == cache[CHOOSE i \in DOMAIN cache : cache[i].key = key].value

get_or_insert_unbounded(cache, cap, key, value) ==
    IF contains(cache, key)
    THEN Append(SelectSeq(cache, LAMBDA e : e.key # key), [key |-> key, value |-> peek(cache, key)])
    ELSE Append(cache, [key |-> key, value |-> value])

\* LruCache::get_or_insert: a key the cache holds becomes the most recently used; a new
\* key enters with the given value, and the least recently used entry leaves a full cache
get_or_insert(cache, cap, key, value) ==
    IF contains(cache, key)
    THEN Append(SelectSeq(cache, LAMBDA e : e.key # key), [key |-> key, value |-> peek(cache, key)])
    ELSE IF Len(cache) >= cap
    THEN Append(Tail(cache), [key |-> key, value |-> value])
    ELSE Append(cache, [key |-> key, value |-> value])

get_chunk_headers_unfiltered(epoch_id, prev_block_hash) ==
    IF contains(prev_block_to_chunk_headers_ready_for_inclusion, prev_block_hash)
    THEN peek(prev_block_to_chunk_headers_ready_for_inclusion, prev_block_hash)
    ELSE EmptyMap

get_chunk_headers_ready_for_inclusion(epoch_id, prev_block_hash) ==
    IF contains(prev_block_to_chunk_headers_ready_for_inclusion, prev_block_hash)
    THEN LET entry == peek(prev_block_to_chunk_headers_ready_for_inclusion, prev_block_hash)
         IN  [s \in {x \in DOMAIN entry : ~IsBanned(epoch_id, entry[x].chunk_producer)} |->
                 entry[s]]
    ELSE EmptyMap

num_chunk_headers_ready_for_inclusion(epoch_id, prev_block_hash) ==
    IF contains(prev_block_to_chunk_headers_ready_for_inclusion, prev_block_hash)
    THEN LET entry == peek(prev_block_to_chunk_headers_ready_for_inclusion, prev_block_hash)
         IN  Cardinality({s \in DOMAIN entry : ~IsBanned(epoch_id, entry[s].chunk_producer)})
    ELSE 0

can_produce_block_at_any_height(prev, height, account_id, next_block_proposer) ==
    /\ account_id = next_block_proposer
    /\ ~(is_next_block_epoch_start(prev) /\ ~prev_block_is_caught_up(prev))

can_produce_block_before_catch_up(prev, height, account_id, next_block_proposer) ==
    /\ account_id = next_block_proposer
    /\ height > latest_known.height

can_produce_block(prev, height, account_id, next_block_proposer) ==
    /\ account_id = next_block_proposer
    /\ height > latest_known.height
    /\ ~(is_next_block_epoch_start(prev) /\ ~prev_block_is_caught_up(prev))

ProtocolVersionNeverNewer(epoch_id) == FALSE

\* The epoch's protocol version is one this binary does not know
ProtocolVersionIsNewer(epoch_id) == get_epoch_protocol_version(epoch_id) > PROTOCOL_VERSION

\* The tip Doomslug is left with when nothing ever refreshes it
doomslug_tip_left_alone(tip, chain_head) == [tip |-> tip, set_tip |-> [kind |-> "None"]]

\* [tip: Doomslug's tip afterwards, set_tip: the arguments of the call of set_tip, if any]
check_and_update_doomslug_tip(tip, chain_head) ==
    IF chain_head # tip
    THEN LET last_final_hash == last_final_block(chain_head)
             last_final_height == IF last_final_hash = DefaultHash
                                  THEN BlockHeight(Genesis)
                                  ELSE BlockHeight(last_final_hash)
         IN  [tip |-> chain_head,
              set_tip |-> [kind |-> "Some", hash |-> chain_head,
                           height |-> BlockHeight(chain_head),
                           last_final_height |-> last_final_height]]
    ELSE [tip |-> tip, set_tip |-> [kind |-> "None"]]

NoBlock == [height |-> 0]

Outcome(kind, block, new_chunks) == [kind |-> kind, block |-> block, new_chunks |-> new_chunks]

\* CryptoHash of two hashes
combine_hash(a, b) == (31 * a + 17 * b + 7) % 1009

\* PartialMerkleTree: the roots of the full subtrees, the largest first, and the
\* number of leaves
EmptyMerkleTree == [path |-> <<>>, size |-> 0]

RECURSIVE MerkleInsertLoop(_, _, _)
MerkleInsertLoop(path, s, node) ==
    IF s % 2 = 1
    THEN MerkleInsertLoop(SubSeq(path, 1, Len(path) - 1), s \div 2,
                          combine_hash(path[Len(path)], node))
    ELSE Append(path, node)

merkle_insert_forgotten(tree, elem) == tree

\* PartialMerkleTree::insert
merkle_insert(tree, elem) ==
    [path |-> MerkleInsertLoop(tree.path, tree.size, elem), size |-> tree.size + 1]

RECURSIVE MerkleFold(_, _)
MerkleFold(path, res) ==
    IF path = <<>> THEN res
    ELSE MerkleFold(SubSeq(path, 1, Len(path) - 1), combine_hash(path[Len(path)], res))

\* PartialMerkleTree::root
merkle_root(tree) ==
    IF tree.path = <<>> THEN DefaultHash
    ELSE MerkleFold(SubSeq(tree.path, 1, Len(tree.path) - 1), tree.path[Len(tree.path)])

RECURSIVE get_block_merkle_tree(_)
\* The tree the chain store keeps for a block: the hashes of the blocks before it
get_block_merkle_tree(b) ==
    IF b = Genesis THEN EmptyMerkleTree
    ELSE merkle_insert(get_block_merkle_tree(PrevHash(b)), PrevHash(b))

\* block_merkle_root and block_ordinal of a block on prev_hash
BlockMerkle(prev_hash) ==
    LET block_merkle_tree == merkle_insert(get_block_merkle_tree(prev_hash), prev_hash)
    IN  [block_merkle_root |-> merkle_root(block_merkle_tree),
         block_ordinal |-> block_merkle_tree.size + 1]

ProducedBlockUnstamped(height, prev_hash, epoch_id, new_chunks, timestamp) ==
    [height |-> height, prev_hash |-> prev_hash, epoch_id |-> epoch_id,
     raw_timestamp |-> timestamp,
     block_merkle_root |-> BlockMerkle(prev_hash).block_merkle_root,
     block_ordinal |-> BlockMerkle(prev_hash).block_ordinal,
     chunks |-> [s \in Shards |->
                    IF s \in DOMAIN new_chunks
                    THEN [height_included |-> new_chunks[s].chunk_header.height_included,
                          header |-> new_chunks[s].chunk_header]
                    ELSE [height_included |-> BlockChunks(prev_hash)[s].height_included,
                          header |-> None]]]

\* Block::produce: the chunks of the previous block, and the new ones, each a copy of
\* the ready header stamped with the height
ProducedBlock(height, prev_hash, epoch_id, new_chunks, timestamp) ==
    [height |-> height, prev_hash |-> prev_hash, epoch_id |-> epoch_id,
     raw_timestamp |-> timestamp,
     block_merkle_root |-> BlockMerkle(prev_hash).block_merkle_root,
     block_ordinal |-> BlockMerkle(prev_hash).block_ordinal,
     chunks |-> [s \in Shards |->
                    IF s \in DOMAIN new_chunks
                    THEN [height_included |-> height,
                          header |-> [new_chunks[s].chunk_header
                                         EXCEPT !.height_included = height]]
                    ELSE [height_included |-> BlockChunks(prev_hash)[s].height_included,
                          header |-> None]]]

produce_block_on(height, prev_hash, timestamp, save_ok) ==
    IF validator_signer.kind = "None" THEN Outcome("BlockProducerError", NoBlock, EmptyMap)
    ELSE
    LET epoch_id == get_epoch_id_from_prev_block(prev_hash)
        next_block_proposer == get_block_producer(epoch_id, height)
        new_chunks == get_chunk_headers_ready_for_inclusion(epoch_id, prev_hash)
    IN  IF ~can_produce_block(prev_hash, height, validator_signer.account, next_block_proposer)
        THEN Outcome("None", NoBlock, EmptyMap)
        ELSE IF get_validator_by_account_id(epoch_id, next_block_proposer) # validator_signer.key
        THEN Outcome("None", NoBlock, EmptyMap)
        ELSE IF ~produce_empty_blocks /\ DOMAIN new_chunks = {}
        THEN Outcome("None", NoBlock, new_chunks)
        ELSE IF ProtocolVersionIsNewer(epoch_id)
        THEN Outcome("Panic", NoBlock, new_chunks)
        ELSE IF ~save_ok
        THEN Outcome("StoreError", NoBlock, new_chunks)
        ELSE Outcome("Block",
                     ProducedBlock(height, prev_hash, epoch_id, new_chunks, timestamp),
                     new_chunks)

\* One call of produce_block_on; produce_block is the call with the head as the parent
Produce(op, height, prev_hash) ==
    /\ Len(returned) <= MaxHeight
    /\ \E timestamp \in Timestamps, save_ok \in BOOLEAN :
          LET res == produce_block_on(height, prev_hash, timestamp, save_ok)
              \* check_and_update_doomslug_tip runs once the signer is known to be there,
              \* before can_produce_block
              tipped == IF validator_signer.kind = "None"
                        THEN [tip |-> doomslug.tip, set_tip |-> [kind |-> "None"]]
                        ELSE check_and_update_doomslug_tip(doomslug.tip, head)
          IN  /\ latest_known' = IF res.kind = "Block"
                                 THEN [height |-> height, seen |-> res.block.raw_timestamp]
                                 ELSE latest_known
              /\ returned' = IF res.kind = "Block" THEN Append(returned, height) ELSE returned
              /\ doomslug' = [tip |-> tipped.tip, handed |-> {}]
              /\ last_call' = [op |-> op, height |-> height, prev_hash |-> prev_hash,
                               known |-> latest_known, result |-> res,
                               head |-> head, tip_before |-> doomslug.tip,
                               tip_at_checks |-> tipped.tip, set_tip |-> tipped.set_tip]
    /\ UNCHANGED <<validator_signer, produce_empty_blocks, world, store, head,
                   pending_approvals, sharded_tx_pool,
                   prev_block_to_chunk_headers_ready_for_inclusion,
                   do_not_include_chunks_from, rebroadcasted_blocks>>
    /\ UNCHANGED syncVars
    /\ UNCHANGED <<vsVars, fsVars>>

ProduceBlock == \E height \in 1..MaxHeight : Produce("produce_block", height, head)

ProduceBlockOn ==
    \E height \in 1..MaxHeight, prev_hash \in store :
        Produce("produce_block_on", height, prev_hash)

----------------------------------------------------------------------------
(* Client: approvals *)

Endorsement(hash) == [kind |-> "Endorsement", hash |-> hash, height |-> 0]

Skip(height) == [kind |-> "Skip", hash |-> 0, height |-> height]

\* Approval::get_data_for_sig
get_data_for_sig(inner, target_height) == <<inner, target_height>>

\* A signature is the key that made it and the data it was made over
Sign(key, data) == [key |-> key, data |-> data]

verify_validator_signature(epoch_id, account_id, data, signature) ==
    /\ account_id \in EpochValidators(epoch_id)
    /\ signature = Sign(get_validator_by_account_id(epoch_id, account_id), data)

\* The epoch whose key a peer's approval on top of parent_hash must carry
ValidatorEpochId(account_id, parent_hash) ==
    IF account_id \in EpochValidators(get_epoch_id_from_prev_block(parent_hash))
    THEN get_epoch_id_from_prev_block(parent_hash)
    ELSE get_next_epoch_id_from_prev_block(parent_hash)

SignatureNotChecked(approval, approval_type, parent_hash) == TRUE

\* The check collect_block_approval makes before it goes on with an approval
SignatureAccepted(approval, approval_type, parent_hash) ==
    approval_type = "PeerApproval" =>
        verify_validator_signature(ValidatorEpochId(approval.account_id, parent_hash),
                                   approval.account_id,
                                   get_data_for_sig(approval.inner, approval.target_height),
                                   approval.signature)

\* An approval that is dropped where it should be parked
handle_process_approval_error_dropping(c, approval, approval_type, check_validator) == c

\* c is [store, head, pending, handed, collected]: the part of the client an approval can
\* touch, and the approvals collect_block_approval was called with
handle_process_approval_error(c, approval, approval_type, check_validator) ==
    IF /\ check_validator
       /\ approval.account_id \notin EpochValidators(EpochOfBlock(c.head))
       /\ approval.account_id \notin EpochValidators(EpochOfBlock(c.head) + 1)
    THEN c
    ELSE LET found == SelectSeq(c.pending, LAMBDA e : e.inner = approval.inner)
             others == SelectSeq(c.pending, LAMBDA e : e.inner # approval.inner)
             entry == IF Len(found) > 0 THEN found[1].approvals ELSE EmptyMap
             all == Append(others,
                           [inner |-> approval.inner,
                            approvals |-> MapPut(entry, approval.account_id,
                                                 [approval |-> approval,
                                                  approval_type |-> approval_type])])
         IN  [c EXCEPT !.pending = IF Len(all) > num_block_producer_seats THEN Tail(all) ELSE all]

\* The blocks a Skip approval may be matched to ("we just pick one"); Orphan when there is none
ParentChoices(blocks, inner) ==
    IF inner.kind = "Endorsement" THEN {inner.hash}
    ELSE IF {b \in blocks : BlockHeight(b) = inner.height} = {} THEN {Orphan}
    ELSE {b \in blocks : BlockHeight(b) = inner.height}

\* chain.get_block_header(hash) is Ok: the block was accepted and its header is still there
header_is_known(blocks, hash) == hash \in blocks /\ hash \notin world.pruned

collect_block_approval(c, approval, approval_type, parent_hash) ==
    LET called == [c EXCEPT !.collected = @ \cup {[approval |-> approval,
                                                    approval_type |-> approval_type]}]
    IN  \* the epoch manager knows the blocks that were accepted
        IF parent_hash \notin c.store
        THEN handle_process_approval_error(called, approval, approval_type, TRUE)
        ELSE IF ~SignatureAccepted(approval, approval_type, parent_hash) THEN called
        ELSE IF \/ validator_signer.kind = "None"
                \/ validator_signer.account #
                       get_block_producer(get_epoch_id_from_prev_block(parent_hash),
                                          approval.target_height)
        THEN IF header_is_known(c.store, parent_hash)
             THEN called   \* the approval is of no use
             ELSE handle_process_approval_error(called, approval, approval_type, FALSE)
        ELSE [called EXCEPT !.handed = @ \cup {[approval |-> approval,
                                                approval_type |-> approval_type,
                                                parent_hash |-> parent_hash]}]

----------------------------------------------------------------------------
(* Client: the transaction pool and the handling of an accepted block *)

remove_transactions_for_block(pool, block) ==
    [s \in Shards |->
        IF /\ BlockHeight(block) = BlockChunks(block)[s].height_included
           /\ cares_about_shard_this_or_next_epoch(s, TRUE)
        THEN pool[s] \ BlockChunks(block)[s].transactions
        ELSE pool[s]]

reintroduce_transactions_for_block(pool, block) ==
    [s \in Shards |->
        IF /\ BlockHeight(block) = BlockChunks(block)[s].height_included
           /\ cares_about_shard_this_or_next_epoch(s, FALSE)
        THEN pool[s] \cup BlockChunks(block)[s].transactions
        ELSE pool[s]]

\* The two loops that walk both heads back to their common ancestor
RECURSIVE ReorgWalk(_, _, _, _)
ReorgWalk(remove_head, reintroduce_head, to_remove, to_reintroduce) ==
    IF remove_head = reintroduce_head
    THEN [to_remove |-> to_remove, to_reintroduce |-> to_reintroduce]
    ELSE IF BlockHeight(remove_head) > BlockHeight(reintroduce_head)
    THEN ReorgWalk(PrevHash(remove_head), reintroduce_head,
                   Append(to_remove, remove_head), to_reintroduce)
    ELSE ReorgWalk(remove_head, PrevHash(reintroduce_head),
                   to_remove, Append(to_reintroduce, reintroduce_head))

RECURSIVE ReintroduceAll(_, _)
ReintroduceAll(pool, hashes) ==
    IF hashes = <<>> THEN pool
    ELSE ReintroduceAll(reintroduce_transactions_for_block(pool, Head(hashes)), Tail(hashes))

RECURSIVE RemoveAll(_, _)
RemoveAll(pool, hashes) ==
    IF hashes = <<>> THEN pool
    ELSE RemoveAll(remove_transactions_for_block(pool, Head(hashes)), Tail(hashes))

reconcile_transaction_pool_fork_ok(pool, status, block) ==
    CASE status.kind = "Next" ->
            [ok |-> TRUE, pool |-> remove_transactions_for_block(pool, block)]
      [] status.kind = "Fork" -> [ok |-> TRUE, pool |-> pool]
      [] OTHER ->
            LET walk == ReorgWalk(block, status.prev_head, <<>>, <<>>)
            IN  [ok |-> TRUE,
                 pool |-> RemoveAll(ReintroduceAll(pool, walk.to_reintroduce), walk.to_remove)]

reconcile_transaction_pool_removing_first(pool, status, block) ==
    CASE status.kind = "Next" ->
            [ok |-> TRUE, pool |-> remove_transactions_for_block(pool, block)]
      [] status.kind = "Fork" -> [ok |-> FALSE, pool |-> pool]
      [] OTHER ->
            LET walk == ReorgWalk(block, status.prev_head, <<>>, <<>>)
            IN  [ok |-> TRUE,
                 pool |-> ReintroduceAll(RemoveAll(pool, walk.to_remove), walk.to_reintroduce)]

reconcile_transaction_pool(pool, status, block) ==
    CASE status.kind = "Next" ->
            [ok |-> TRUE, pool |-> remove_transactions_for_block(pool, block)]
      [] status.kind = "Fork" -> [ok |-> FALSE, pool |-> pool]
      [] OTHER ->
            LET walk == ReorgWalk(block, status.prev_head, <<>>, <<>>)
            IN  [ok |-> TRUE,
                 pool |-> RemoveAll(ReintroduceAll(pool, walk.to_reintroduce), walk.to_remove)]

\* The status the chain gives a block it accepts
BlockStatus(block) ==
    IF BlockHeight(block) <= BlockHeight(head) THEN [kind |-> "Fork", prev_head |-> head]
    ELSE IF PrevHash(block) = head THEN [kind |-> "Next", prev_head |-> head]
    ELSE [kind |-> "Reorg", prev_head |-> head]

ChunkHeader(prev_block_hash, shard_id) ==
    [prev_block_hash |-> prev_block_hash, shard_id |-> shard_id,
     height_created |-> BlockHeight(prev_block_hash) + 1, height_included |-> 0]

\* get_or_insert of the previous block's hash, then get_mut of the entry, which is the
\* most recently used by then, and HashMap::insert of the shard's header
on_chunk_header_ready_for_inclusion(cache, chunk_header, chunk_producer) ==
    LET inserted == get_or_insert(cache, CHUNK_HEADERS_FOR_INCLUSION_CACHE_SIZE,
                                  chunk_header.prev_block_hash, EmptyMap)
    IN  [inserted EXCEPT ![Len(inserted)].value =
            MapPut(@, chunk_header.shard_id,
                   [chunk_header |-> chunk_header, chunk_producer |-> chunk_producer])]

ShardsToProduceBeforeCatchUp(block) ==
    {s \in Shards :
        get_chunk_producer(get_epoch_id_from_prev_block(block), BlockHeight(block) + 1, s)
            = validator_signer.account}

\* The shards produce_chunks makes a chunk for on top of block
ShardsToProduce(block) ==
    {s \in Shards :
        /\ get_chunk_producer(get_epoch_id_from_prev_block(block), BlockHeight(block) + 1, s)
               = validator_signer.account
        /\ ~(is_next_block_epoch_start(block) /\ ~prev_block_is_caught_up(block))}

RECURSIVE PersistAll(_, _, _)
PersistAll(cache, block, shards) ==
    IF shards = {} THEN cache
    ELSE LET s == CHOOSE x \in shards : TRUE
         IN  PersistAll(on_chunk_header_ready_for_inclusion(
                            cache, ChunkHeader(block, s), validator_signer.account),
                        block, shards \ {s})

\* The drained approvals go through collect_block_approval one by one
RECURSIVE CollectAll(_, _, _)
CollectAll(c, entries, picks) ==
    IF entries = {} THEN c
    ELSE LET e == CHOOSE x \in entries : TRUE
         IN  Bind(collect_block_approval(c, e.approval, e.approval_type, picks[e]),
                  LAMBDA next : CollectAll(next, entries \ {e}, picks))

\* A bucket that is popped and found empty
ParkedForgotten(pending, inner) == {}

\* pending_approvals.pop(inner).unwrap_or_default()
Parked(pending, inner) ==
    UNION {Range(pending[i].approvals) : i \in {j \in DOMAIN pending : pending[j].inner = inner}}

\* One parent for every drained approval: the endorsed block, or for a Skip of the block's
\* height one of the blocks the store has at that height
PickSets(entries, blocks, height) ==
    LET skips == {e \in entries : e.approval.inner.kind = "Skip"}
    IN  {[e \in entries |-> IF e \in skips THEN f[e] ELSE e.approval.inner.hash] :
            f \in [skips -> {b \in blocks : BlockHeight(b) = height}]}

\* The chain accepts a block and the client handles it
\* (postprocess_ready_blocks, on_block_accepted_with_optional_chunk_produce); with
\* `record` the history keeps the pending approvals the handler found and collected
RECURSIVE Ascending(_)
\* shard_ids() in their order
Ascending(S) ==
    IF S = {} THEN <<>>
    ELSE LET x == CHOOSE y \in S : \A z \in S : y <= z
         IN  <<x>> \o Ascending(S \ {x})

Message(kind, hash, shard_id) == [kind |-> kind, hash |-> hash, shard_id |-> shard_id]

on_block_accepted_messages_chunks_first(status, block, returns_early, producing) ==
    [i \in 1..Cardinality(producing) |->
        Message("DistributeEncodedChunk", block, Ascending(producing)[i])]
    \o (IF status.kind # "Fork" THEN <<Message("SetChainInfo", block, 0)>> ELSE <<>>)
    \o (IF returns_early THEN <<>> ELSE <<Message("CheckIncompleteChunks", block, 0)>>)

\* What on_block_accepted sends to the network adapter and to the shards manager, in
\* the order it sends it: the chain info of a new head, the chunks it produces on the
\* block, and the request to check the incomplete chunks unless it returned before
on_block_accepted_messages(status, block, returns_early, producing) ==
    (IF status.kind # "Fork" THEN <<Message("SetChainInfo", block, 0)>> ELSE <<>>)
    \o [i \in 1..Cardinality(producing) |->
           Message("DistributeEncodedChunk", block, Ascending(producing)[i])]
    \o (IF returns_early THEN <<>> ELSE <<Message("CheckIncompleteChunks", block, 0)>>)

AcceptBlock(record) ==
    \E block \in Blocks \ store, provenance \in {"NONE", "SYNC", "PRODUCED"},
       is_syncing \in BOOLEAN, skip_produce_chunk \in BOOLEAN :
        /\ PrevHash(block) \in store
        /\ LET status == BlockStatus(block)
               new_head == IF status.kind = "Fork" THEN head ELSE block
               inners == {Endorsement(block), Skip(BlockHeight(block))}
               drained == IF provenance = "NONE"
                          THEN UNION {Parked(pending_approvals, i) : i \in inners}
                          ELSE {}
               c0 == [store |-> store \cup {block}, head |-> new_head,
                      pending |-> IF provenance = "NONE"
                                  THEN SelectSeq(pending_approvals,
                                                 LAMBDA e : e.inner \notin inners)
                                  ELSE pending_approvals,
                      handed |-> {}, collected |-> {}]
               has_signer == validator_signer.kind # "None"
               rec == IF has_signer
                      THEN reconcile_transaction_pool(sharded_tx_pool, status, block)
                      ELSE [ok |-> FALSE, pool |-> sharded_tx_pool]
               producing == IF /\ has_signer
                               /\ rec.ok
                               /\ provenance # "SYNC"
                               /\ ~is_syncing
                               /\ ~skip_produce_chunk
                            THEN ShardsToProduce(block)
                            ELSE {}
           IN  \E picks \in PickSets(drained, c0.store, BlockHeight(block)) :
               \* prepare_transactions: what the runtime pulls from the pool and rejects is gone
               \E dropped \in SUBSET (UNION {rec.pool[s] : s \in producing}) :
                  LET c1 == CollectAll(c0, drained, picks)
                  IN  /\ store' = c1.store
                      /\ head' = c1.head
                      /\ pending_approvals' = c1.pending
                      /\ doomslug' =
                            [tip |-> check_and_update_doomslug_tip(doomslug.tip, new_head).tip,
                             handed |-> c1.handed]
                      /\ sharded_tx_pool' = [s \in Shards |-> IF s \in producing
                                                                THEN rec.pool[s] \ dropped
                                                                ELSE rec.pool[s]]
                      /\ prev_block_to_chunk_headers_ready_for_inclusion' =
                            PersistAll(prev_block_to_chunk_headers_ready_for_inclusion,
                                       block, producing)
                      /\ last_call' =
                            IF record
                            THEN [op |-> "on_block_accepted", block |-> block,
                                  status |-> status, dropped |-> dropped,
                                  provenance |-> provenance, parked |-> pending_approvals,
                                  collected |-> c1.collected,
                                  is_syncing |-> is_syncing,
                                  skip_produce_chunk |-> skip_produce_chunk,
                                  pool |-> sharded_tx_pool,
                                  ready |-> prev_block_to_chunk_headers_ready_for_inclusion,
                                  sent |-> on_block_accepted_messages(
                                               status, block, has_signer /\ ~rec.ok,
                                               producing)]
                            ELSE [op |-> "on_block_accepted", block |-> block,
                                  status |-> status, dropped |-> dropped]
        /\ UNCHANGED <<validator_signer, produce_empty_blocks, world, latest_known,
                       do_not_include_chunks_from, rebroadcasted_blocks, returned>>
        /\ UNCHANGED <<vsVars, fsVars>>

\* on_block_accepted, called for one block
Accept(record) == AcceptBlock(record) /\ UNCHANGED syncVars

OnBlockAccepted == Accept(FALSE)

----------------------------------------------------------------------------
(* Client: the other handlers *)

\* The approvals the network sends, and the node's own
InnerChoices == {Endorsement(Genesis), Endorsement(BlockB2), Skip(1), Skip(2)}

TargetHeight(inner) ==
    IF inner.kind = "Endorsement" THEN BlockHeight(inner.hash) + 1 ELSE inner.height + 2

MakeApproval(account_id, inner, key) ==
    [inner |-> inner, target_height |-> TargetHeight(inner), account_id |-> account_id,
     signature |-> Sign(key, get_data_for_sig(inner, TargetHeight(inner)))]

\* A peer signs with one of the keys it has in the first two epochs; an account that is
\* no validator signs with a key of its own
KeysOf(a) ==
    IF \E e \in {1, 2} : a \in EpochValidators(e)
    THEN {get_validator_by_account_id(e, a) : e \in {e \in {1, 2} : a \in EpochValidators(e)}}
    ELSE {get_validator_by_account_id(1, a)}

PeerApprovals ==
    UNION {{MakeApproval(a, inner, key) : inner \in InnerChoices, key \in KeysOf(a)} :
              a \in Peers}

\* Doomslug makes the node's own approvals for its tip; the signature is not looked at
SelfApprovals == {MakeApproval(Me, inner, 0) : inner \in {Endorsement(head), Skip(BlockHeight(head))}}

\* One call of collect_block_approval; with `record` the history keeps its arguments
\* and the pending approvals it found
Collect(record) ==
    \E approval_type \in {"PeerApproval", "SelfApproval"} :
    \E approval \in IF approval_type = "PeerApproval" THEN PeerApprovals ELSE SelfApprovals :
    \E parent_hash \in ParentChoices(store, approval.inner) :
        LET c == collect_block_approval(
                     [store |-> store, head |-> head, pending |-> pending_approvals,
                      handed |-> {}, collected |-> {}],
                     approval, approval_type, parent_hash)
        IN  /\ pending_approvals' = c.pending
            /\ doomslug' = [tip |-> doomslug.tip, handed |-> c.handed]
            /\ last_call' =
                  IF record
                  THEN [op |-> "collect_block_approval", approval |-> approval,
                        approval_type |-> approval_type, parent_hash |-> parent_hash,
                        parked |-> pending_approvals]
                  ELSE [op |-> "collect_block_approval"]
            /\ UNCHANGED <<validator_signer, produce_empty_blocks, world, store, head,
                           latest_known, sharded_tx_pool,
                           prev_block_to_chunk_headers_ready_for_inclusion,
                           do_not_include_chunks_from, rebroadcasted_blocks, returned>>
            /\ UNCHANGED syncVars
            /\ UNCHANGED <<vsVars, fsVars>>

CollectBlockApproval == Collect(FALSE)

\* The shards manager reports a header together with the producer it worked out
OnChunkHeaderReadyForInclusion ==
    \E prev \in store, s \in Shards :
        LET chunk_header == ChunkHeader(prev, s)
            chunk_producer == get_chunk_producer(get_epoch_id_from_prev_block(prev),
                                                 chunk_header.height_created, s)
        IN  /\ prev_block_to_chunk_headers_ready_for_inclusion' =
                  on_chunk_header_ready_for_inclusion(
                      prev_block_to_chunk_headers_ready_for_inclusion,
                      chunk_header, chunk_producer)
            /\ last_call' = [op |-> "on_chunk_header_ready_for_inclusion",
                             chunk_header |-> chunk_header]
            /\ doomslug' = [doomslug EXCEPT !.handed = {}]
            /\ UNCHANGED <<validator_signer, produce_empty_blocks, world, store, head,
                           latest_known, pending_approvals, sharded_tx_pool,
                           do_not_include_chunks_from, rebroadcasted_blocks, returned>>
            /\ UNCHANGED syncVars
            /\ UNCHANGED <<vsVars, fsVars>>

\* LruCache::put of (epoch_id, chunk_producer); nothing happens when the epoch manager
\* does not know the chunk's previous block
ban_chunk_producer_for_producing_invalid_chunk(blocklist, chunk_header) ==
    IF chunk_header.prev_block_hash \notin store THEN blocklist
    ELSE LET epoch_id == get_epoch_id_from_prev_block(chunk_header.prev_block_hash)
             chunk_producer == get_chunk_producer(epoch_id, chunk_header.height_created,
                                                  chunk_header.shard_id)
             all == Append(SelectSeq(blocklist, LAMBDA e : e # <<epoch_id, chunk_producer>>),
                           <<epoch_id, chunk_producer>>)
         IN  IF Len(all) > NUM_EPOCH_CHUNK_PRODUCERS_TO_KEEP_IN_BLOCKLIST THEN Tail(all) ELSE all

RECURSIVE BanAll(_, _)
BanAll(blocklist, invalid_chunks) ==
    IF invalid_chunks = <<>> THEN blocklist
    ELSE BanAll(ban_chunk_producer_for_producing_invalid_chunk(blocklist, Head(invalid_chunks)),
                Tail(invalid_chunks))

\* The invalid chunks an artifact may report
InvalidChunkChoices == {ChunkHeader(prev, s) : prev \in {Genesis, BlockB1, Orphan}, s \in Shards}

ProcessBlockProcessingArtifact ==
    \E n \in 1..2 : \E invalid_chunks \in [1..n -> InvalidChunkChoices] :
        /\ do_not_include_chunks_from' = BanAll(do_not_include_chunks_from, invalid_chunks)
        /\ last_call' = [op |-> "process_block_processing_artifact",
                         invalid_chunks |-> invalid_chunks]
        /\ doomslug' = [doomslug EXCEPT !.handed = {}]
        /\ UNCHANGED <<validator_signer, produce_empty_blocks, world, store, head,
                       latest_known, pending_approvals, sharded_tx_pool,
                       prev_block_to_chunk_headers_ready_for_inclusion,
                       rebroadcasted_blocks, returned>>
        /\ UNCHANGED syncVars
        /\ UNCHANGED <<vsVars, fsVars>>

----------------------------------------------------------------------------
(* Client: receive_block *)

BLOCK_HORIZON == 500

too_far_ahead_when_syncing(height, head_height, is_syncing, was_requested) ==
    height >= head_height + BLOCK_HORIZON /\ is_syncing

\* check_block_height: "Dropping a block that is too far ahead."
too_far_ahead(height, head_height, is_syncing, was_requested) ==
    height >= head_height + BLOCK_HORIZON /\ is_syncing /\ ~was_requested

too_far_behind_or_at(height, tail) == height <= tail

\* check_block_height: "Dropping a block that is too far behind."
too_far_behind(height, tail) == height < tail

\* check_block_height: the block is not requested, it does not build on the current head
\* and the chain has processed its height
seen_this_height_before(block, was_requested, head_hash, processed) ==
    /\ ~was_requested
    /\ block.prev_hash # head_hash
    /\ block.height \in processed

\* check_block_height: why the block is dropped, or "None" when its height is valid
check_block_height(block, was_requested, is_syncing, head_hash, w) ==
    IF too_far_ahead(block.height, BlockHeight(head_hash), is_syncing, was_requested)
    THEN "TooFarAhead"
    ELSE IF too_far_behind(block.height, w.tail) THEN "TooFarBehind"
    ELSE IF seen_this_height_before(block, was_requested, head_hash, w.processed)
    THEN "HeightProcessed"
    ELSE "None"

NUM_REBROADCAST_BLOCKS == 30

\* block.hash(): the digest of the header, distinct for distinct headers and from the
\* hashes of the blocks the chain can hold
BlockHash(block) == 1000 + 100 * block.height + 10 * block.prev_hash + block.epoch_id

ban_peer_nobody(peer_id, ban_reason) == {}

\* ban_peer: the BanPeer message sent to the network adapter
ban_peer(peer_id, ban_reason) == {[peer_id |-> peer_id, ban_reason |-> ban_reason]}

request_block_never(hash, peer_id, blocks) == {}

\* request_block: the BlockRequest message, unless chain.block_exists(hash)
request_block(hash, peer_id, blocks) ==
    IF hash \in blocks THEN {} ELSE {[hash |-> hash, peer_id |-> peer_id]}

rebroadcast_block_again(cache, hash) ==
    [sent |-> TRUE, cache |-> Append(SelectSeq(cache, LAMBDA e : e # hash), hash)]

\* rebroadcast_block: LruCache::get makes a hash it finds the most recently used; a hash
\* it does not find is sent and put, which drops the least recently used hash of a full
\* cache
rebroadcast_block(cache, hash) ==
    IF hash \in Range(cache)
    THEN [sent |-> FALSE, cache |-> Append(SelectSeq(cache, LAMBDA e : e # hash), hash)]
    ELSE [sent |-> TRUE,
          cache |-> IF Len(cache) >= NUM_REBROADCAST_BLOCKS
                    THEN Append(Tail(cache), hash) ELSE Append(cache, hash)]

\* verify_and_rebroadcast_block, given what process_block_header and validate_block said
verify_and_rebroadcast_block(block, was_requested, is_syncing, head_hash, header) ==
    CASE header = "Ok" ->
            [rebroadcast |-> /\ \/ BlockHeight(head_hash) < block.height
                                \/ EpochOfBlock(head_hash) = block.epoch_id
                             /\ ~was_requested
                             /\ ~is_syncing,
             banned |-> FALSE, result |-> "Ok"]
      [] header = "InvalidBlockFutureTime" ->
            [rebroadcast |-> FALSE, banned |-> FALSE, result |-> header]
      [] header = "BadData" ->
            [rebroadcast |-> FALSE, banned |-> TRUE, result |-> header]
      [] OTHER ->
            [rebroadcast |-> FALSE, banned |-> FALSE, result |-> "Ok"]

\* What the chain answers while one block is received: a wrong signature, a bad header,
\* a block it processes or refuses, or an orphan (no signature check, no parent for the
\* header, Orphan from the processing) whose parent is or is not an orphan itself
ReceiveAnswers ==
    {a \in [signature : {"Correct", "Incorrect", "CannotVerifyBecauseBlockIsOrphan"},
            header : {"Ok", "BadData", "InvalidBlockFutureTime", "MissingBlock"},
            process : {"Ok", "Orphan", "Error"},
            is_orphan : BOOLEAN] :
        \/ a.signature = "Incorrect" /\ a.header = "Ok" /\ a.process = "Ok" /\ ~a.is_orphan
        \/ /\ a.signature = "Correct"
           /\ a.header \in {"BadData", "InvalidBlockFutureTime"}
           /\ a.process = "Ok" /\ ~a.is_orphan
        \/ /\ a.signature = "Correct" /\ a.header = "Ok"
           /\ a.process \in {"Ok", "Error"} /\ ~a.is_orphan
        \/ /\ a.signature = "CannotVerifyBecauseBlockIsOrphan" /\ a.header = "MissingBlock"
           /\ a.process = "Orphan"}

\* The chain's answers for one block: a block is an orphan iff the chain has not got
\* its parent; a wrong hash or signature can be found out for any block
AnswersFor(block, blocks) ==
    {a \in ReceiveAnswers :
        \/ a.signature = "Incorrect"
        \/ (a.process = "Orphan") = (block.prev_hash \notin blocks)}

\* receive_block_impl: what the handler did with the block and what it returned
receive_block_impl(block, peer_id, was_requested, is_syncing, head_hash, w, answers, c) ==
    LET dropped == check_block_height(block, was_requested, is_syncing, head_hash, w)
        nothing == [tracker |-> <<"received">>, dropped |-> dropped, verified |-> FALSE,
                    banned |-> {}, rebroadcast |-> FALSE,
                    rebroadcasted_blocks |-> c.rebroadcasted_blocks,
                    provenance |-> "None", requested |-> {}, result |-> "Ok"]
        verified == verify_and_rebroadcast_block(block, was_requested, is_syncing,
                                                 head_hash, answers.header)
        rebroadcast == IF verified.rebroadcast
                       THEN rebroadcast_block(c.rebroadcasted_blocks, BlockHash(block))
                       ELSE [sent |-> FALSE, cache |-> c.rebroadcasted_blocks]
    IN  IF dropped # "None"
        THEN [nothing EXCEPT !.tracker = <<"received", "dropped">>]
        ELSE IF answers.signature = "Incorrect"
        THEN [nothing EXCEPT !.verified = TRUE,
                             !.banned = ban_peer(peer_id, "BadBlockHeader"),
                             !.result = "InvalidSignature"]
        ELSE IF verified.result # "Ok"
        THEN [nothing EXCEPT !.verified = TRUE,
                             !.banned = IF verified.banned
                                        THEN ban_peer(peer_id, "BadBlockHeader") ELSE {},
                             !.result = verified.result]
        ELSE [nothing EXCEPT !.verified = TRUE,
                             !.rebroadcast = rebroadcast.sent,
                             !.rebroadcasted_blocks = rebroadcast.cache,
                             !.provenance = IF was_requested THEN "SYNC" ELSE "NONE",
                             !.requested = IF /\ answers.process = "Orphan"
                                              /\ ~answers.is_orphan
                                           THEN request_block(block.prev_hash, peer_id,
                                                              c.store)
                                           ELSE {},
                             !.result = answers.process]

\* The heights a peer's block is given: around the tail, after the head, around the horizon
ReceivedHeights(head_height, tail) ==
    {h \in {tail - 1, tail, head_height + 1, head_height + BLOCK_HORIZON - 1,
            head_height + BLOCK_HORIZON} : h >= 0}

\* The heights the chain has processed without holding a block of that height
ProcessedOnly == world.processed \ {BlockHeight(b) : b \in store}

\* The last block received left the node as it was: what the node receives next it
\* could have received instead of that block
LeftAsItWas ==
    /\ last_call.op = "receive_block"
    /\ world.processed = last_call.processed
    /\ rebroadcasted_blocks = last_call.rebroadcasted_blocks

\* receive_block for one of `blocks` sent by one of `peers`
Receive(blocks, peers) ==
    /\ Cardinality(ProcessedOnly) <= MaxReceived
    /\ ~LeftAsItWas
    /\ \E is_syncing \in BOOLEAN, was_requested \in BOOLEAN, peer_id \in peers :
       \E block \in blocks :
       \* the chain is asked about a block that passed the height pre-check only: of a
       \* block that is dropped the model keeps whether its signature is right
       \E answers \in IF check_block_height(block, was_requested, is_syncing, head, world)
                            = "None"
                       THEN AnswersFor(block, store)
                       ELSE {a \in ReceiveAnswers : a.header = "Ok" /\ a.process = "Ok"} :
       \E done \in {receive_block_impl(block, peer_id, was_requested, is_syncing, head,
                                       world, answers,
                                       [store |-> store,
                                        rebroadcasted_blocks |-> rebroadcasted_blocks])} :
           \* the chain saves the height of a block whose processing it started
           /\ world' = IF done.provenance = "None" THEN world
                       ELSE [world EXCEPT !.processed = @ \cup {block.height}]
           /\ rebroadcasted_blocks' = done.rebroadcasted_blocks
           /\ last_call' = [op |-> "receive_block", block |-> block, peer_id |-> peer_id,
                            was_requested |-> was_requested, is_syncing |-> is_syncing,
                            head_height |-> BlockHeight(head), head_hash |-> head,
                            tail |-> world.tail, processed |-> world.processed,
                            rebroadcasted_blocks |-> rebroadcasted_blocks,
                            answers |-> answers,
                            done |-> done]
    /\ doomslug' = [doomslug EXCEPT !.handed = {}]
    /\ UNCHANGED <<validator_signer, produce_empty_blocks, store, head,
                   latest_known, pending_approvals, sharded_tx_pool,
                   prev_block_to_chunk_headers_ready_for_inclusion,
                   do_not_include_chunks_from, returned>>
    /\ UNCHANGED syncVars
    /\ UNCHANGED <<vsVars, fsVars>>

\* Blocks of the head's epoch at the heights the pre-check tells apart, from one peer
ReceiveBlock ==
    Receive([height : ReceivedHeights(BlockHeight(head), world.tail),
             prev_hash : {head, Orphan}, epoch_id : {EpochOfBlock(head)}], {2})

\* Blocks at and after the head's height, of its epoch and of the other, from two peers
RelayBlock ==
    Receive([height : {BlockHeight(head), BlockHeight(head) + 1},
             prev_hash : {head, Orphan}, epoch_id : {1, 2}], {2, 3})

----------------------------------------------------------------------------
(* Client: specifications.  Each starts from a node at genesis and runs the handlers
   that one group of properties is about. *)

NoSigner == [kind |-> "None", account |-> 0, key |-> 0]

\* The node's key is its key of the first or of the second epoch
Signer(epoch_id) ==
    [kind |-> "Some", account |-> Me, key |-> get_validator_by_account_id(epoch_id, Me)]

Worlds == [caught_up : BOOLEAN, upgraded : BOOLEAN,
           assigned : SUBSET Shards, tracked : {{}, Shards}, pruned : {{}},
           tail : {0}, processed : {{}}]

QuietWorld == [caught_up |-> TRUE, upgraded |-> FALSE, assigned |-> Shards, tracked |-> {},
               pruned |-> {}, tail |-> 0, processed |-> {}]

EmptyPool == [s \in Shards |-> {}]

\* The client after Client::new on a chain that holds the genesis block only
AtGenesis ==
    /\ store = {Genesis}
    /\ head = Genesis
    /\ latest_known = [height |-> 0, seen |-> 0]
    \* Doomslug::new is not given the chain: its tip is no block until the first refresh
    /\ doomslug = [tip |-> DefaultHash, handed |-> {}]
    /\ pending_approvals = <<>>
    /\ prev_block_to_chunk_headers_ready_for_inclusion = EmptyMap
    /\ do_not_include_chunks_from = <<>>
    /\ rebroadcasted_blocks = <<>>
    /\ returned = <<>>
    /\ last_call = [op |-> "new"]
    /\ IdleSync
    /\ IdleVS
    /\ IdleFS

InitProduce ==
    /\ validator_signer \in {NoSigner, Signer(1), Signer(2)}
    /\ produce_empty_blocks \in BOOLEAN
    /\ world \in {w \in Worlds : w.assigned = Shards /\ w.tracked = {}}
    /\ sharded_tx_pool = EmptyPool
    /\ AtGenesis

NextProduce == ProduceBlock \/ ProduceBlockOn \/ OnBlockAccepted

SpecProduce == InitProduce /\ [][NextProduce]_vars

InitInclusion ==
    /\ validator_signer = Signer(1)
    /\ produce_empty_blocks \in BOOLEAN
    /\ world = QuietWorld
    /\ sharded_tx_pool = EmptyPool
    /\ AtGenesis

NextInclusion ==
    OnChunkHeaderReadyForInclusion \/ ProcessBlockProcessingArtifact \/ ProduceBlockOn

SpecInclusion == InitInclusion /\ [][NextInclusion]_vars

\* A validator of the second epoch whose head is BlockA1, the block that has a chunk of
\* its own height for both shards
InitStamping ==
    /\ validator_signer = Signer(2)
    /\ produce_empty_blocks \in BOOLEAN
    /\ world = QuietWorld
    /\ sharded_tx_pool = EmptyPool
    /\ store = {Genesis, BlockA1}
    /\ head = BlockA1
    /\ latest_known = [height |-> 1, seen |-> 0]
    /\ doomslug = [tip |-> BlockA1, handed |-> {}]
    /\ pending_approvals = <<>>
    /\ prev_block_to_chunk_headers_ready_for_inclusion = EmptyMap
    /\ do_not_include_chunks_from = <<>>
    /\ rebroadcasted_blocks = <<>>
    /\ returned = <<>>
    /\ last_call = [op |-> "new"]
    /\ IdleSync
    /\ IdleVS
    /\ IdleFS

SpecStamping == InitStamping /\ [][NextInclusion]_vars

InitApprovals ==
    /\ validator_signer \in {NoSigner, Signer(2)}
    /\ produce_empty_blocks = TRUE
    /\ world = QuietWorld
    /\ sharded_tx_pool = EmptyPool
    /\ AtGenesis

NextApprovals == CollectBlockApproval \/ OnBlockAccepted

SpecApprovals == InitApprovals /\ [][NextApprovals]_vars

\* The chains a node can have accepted, with the headers garbage collection removed:
\* BlockA1 is on a fork once BlockB2 is the head
ChainStates ==
    {[store |-> {Genesis}, head |-> Genesis, pruned |-> {}],
     [store |-> {Genesis, BlockA1}, head |-> BlockA1, pruned |-> {}],
     [store |-> {Genesis, BlockB1}, head |-> BlockB1, pruned |-> {}],
     [store |-> {Genesis, BlockA1, BlockB1}, head |-> BlockA1, pruned |-> {}],
     [store |-> Blocks, head |-> BlockB2, pruned |-> {}],
     [store |-> Blocks, head |-> BlockB2, pruned |-> {BlockA1}]}

\* The pending approvals such a node can hold: at most two buckets of one approval each,
\* parked by collect_block_approval for a parent the node has not got, sent by a
\* validator of the head's epoch or the next
ParkedChoices(cs) ==
    LET unknown == {inner \in InnerChoices : ParentChoices(cs.store, inner) \cap cs.store = {}}
        senders == EpochValidators(EpochOfBlock(cs.head))
                       \cup EpochValidators(EpochOfBlock(cs.head) + 1)
        buckets == {[inner |-> a.inner,
                     approvals |-> (a.account_id :> [approval |-> a,
                                                     approval_type |-> "PeerApproval"])] :
                       a \in {x \in PeerApprovals : x.inner \in unknown
                                                      /\ x.account_id \in senders}}
    IN  {<<>>} \cup {<<b>> : b \in buckets}
               \cup {<<b[1], b[2]>> : b \in {x \in buckets \X buckets : x[1].inner # x[2].inner}}

InitParked ==
    /\ validator_signer \in {NoSigner, Signer(2)}
    /\ produce_empty_blocks = TRUE
    /\ sharded_tx_pool = EmptyPool
    /\ \E cs \in ChainStates :
          /\ store = cs.store
          /\ head = cs.head
          /\ world = [QuietWorld EXCEPT !.pruned = cs.pruned]
          /\ doomslug = [tip |-> IF cs.head = Genesis THEN DefaultHash ELSE cs.head,
                         handed |-> {}]
          /\ pending_approvals \in ParkedChoices(cs)
    /\ latest_known = [height |-> 0, seen |-> 0]
    /\ prev_block_to_chunk_headers_ready_for_inclusion = EmptyMap
    /\ do_not_include_chunks_from = <<>>
    /\ rebroadcasted_blocks = <<>>
    /\ returned = <<>>
    /\ last_call = [op |-> "new"]
    /\ IdleSync
    /\ IdleVS
    /\ IdleFS

\* One handler runs on the node and the history keeps what it was given
CollectOnce == last_call.op = "new" /\ Collect(TRUE)

AcceptOnce == last_call.op = "new" /\ Accept(TRUE)

NextParked == CollectOnce \/ AcceptOnce

SpecParked == InitParked /\ [][NextParked]_vars

\* A node on one of the chains, its tail anywhere up to its head; the chain has processed
\* the heights of the blocks it holds
InitReceive ==
    /\ validator_signer = NoSigner
    /\ produce_empty_blocks = TRUE
    /\ sharded_tx_pool = EmptyPool
    /\ \E cs \in ChainStates : \E tail \in 0..BlockHeight(cs.head) :
          /\ store = cs.store
          /\ head = cs.head
          /\ world = [QuietWorld EXCEPT !.pruned = cs.pruned, !.tail = tail,
                                        !.processed = {BlockHeight(b) : b \in cs.store}]
          /\ doomslug = [tip |-> IF cs.head = Genesis THEN DefaultHash ELSE cs.head,
                         handed |-> {}]
    /\ pending_approvals = <<>>
    /\ latest_known = [height |-> 0, seen |-> 0]
    /\ prev_block_to_chunk_headers_ready_for_inclusion = EmptyMap
    /\ do_not_include_chunks_from = <<>>
    /\ rebroadcasted_blocks = <<>>
    /\ returned = <<>>
    /\ last_call = [op |-> "new"]
    /\ IdleSync
    /\ IdleVS
    /\ IdleFS

NextReceive == ReceiveBlock

SpecReceive == InitReceive /\ [][NextReceive]_vars

\* The hashes the node rebroadcast before, least recently used first
RebroadcastedBefore(n) == [i \in 1..n |-> 100 + i]

\* A node at genesis or on BlockA1, its cache of rebroadcast blocks empty, one short of
\* full or full
InitRelay ==
    /\ validator_signer = NoSigner
    /\ produce_empty_blocks = TRUE
    /\ sharded_tx_pool = EmptyPool
    /\ \E cs \in {x \in ChainStates : x.head \in {Genesis, BlockA1} /\ BlockB1 \notin x.store} :
          /\ store = cs.store
          /\ head = cs.head
          /\ world = [QuietWorld EXCEPT !.processed = {BlockHeight(b) : b \in cs.store}]
          /\ doomslug = [tip |-> IF cs.head = Genesis THEN DefaultHash ELSE cs.head,
                         handed |-> {}]
    /\ rebroadcasted_blocks \in {RebroadcastedBefore(n) :
                                    n \in {0, NUM_REBROADCAST_BLOCKS - 1,
                                           NUM_REBROADCAST_BLOCKS}}
    /\ pending_approvals = <<>>
    /\ latest_known = [height |-> 0, seen |-> 0]
    /\ prev_block_to_chunk_headers_ready_for_inclusion = EmptyMap
    /\ do_not_include_chunks_from = <<>>
    /\ returned = <<>>
    /\ last_call = [op |-> "new"]
    /\ IdleSync
    /\ IdleVS
    /\ IdleFS

NextRelay == RelayBlock

SpecRelay == InitRelay /\ [][NextRelay]_vars

\* What a node that has run for long holds in the two caches of chunk producers: n
\* previous blocks with a header of shard 1, and n bans of epochs past, least recently
\* used first
HeadersReadyBefore(n) ==
    [i \in 1..n |-> [key |-> 100 + i,
                     value |-> [s \in {1} |-> [chunk_header |-> ChunkHeader(100 + i, s),
                                               chunk_producer |-> 1]]]]

BannedBefore(n) == [i \in 1..n |-> <<100 + i, 1>>]

\* What collect_block_approval has parked after a Skip and an Endorsement of a peer
\* whose blocks the node has not got
ParkedBefore ==
    LET fresh == [store |-> {Genesis}, head |-> Genesis, pending |-> <<>>,
                  handed |-> {}, collected |-> {}]
        first == collect_block_approval(
                     fresh, MakeApproval(2, Skip(1), get_validator_by_account_id(1, 2)),
                     "PeerApproval", Orphan)
        second == collect_block_approval(
                      first,
                      MakeApproval(2, Endorsement(BlockB2), get_validator_by_account_id(1, 2)),
                      "PeerApproval", BlockB2)
    IN  second.pending

\* A node at genesis whose caches are full or one entry short of it
InitCaches ==
    /\ validator_signer = NoSigner
    /\ produce_empty_blocks = TRUE
    /\ sharded_tx_pool = EmptyPool
    /\ store = {Genesis}
    /\ head = Genesis
    /\ world = [QuietWorld EXCEPT !.processed = {0}]
    /\ doomslug = [tip |-> DefaultHash, handed |-> {}]
    /\ \E short \in 0..1 :
          /\ rebroadcasted_blocks = RebroadcastedBefore(NUM_REBROADCAST_BLOCKS - short)
          /\ prev_block_to_chunk_headers_ready_for_inclusion =
                HeadersReadyBefore(CHUNK_HEADERS_FOR_INCLUSION_CACHE_SIZE - short)
          /\ do_not_include_chunks_from =
                BannedBefore(NUM_EPOCH_CHUNK_PRODUCERS_TO_KEEP_IN_BLOCKLIST - short)
          /\ pending_approvals = SubSeq(ParkedBefore, 1 + short, Len(ParkedBefore))
    /\ latest_known = [height |-> 0, seen |-> 0]
    /\ returned = <<>>
    /\ last_call = [op |-> "new"]
    /\ IdleSync
    /\ IdleVS
    /\ IdleFS

\* The node is told of a ready header, then of invalid chunks, then receives a block of
\* height 1 and then an approval
HeaderThenArtifact ==
    /\ last_call.op = "on_chunk_header_ready_for_inclusion"
    /\ ProcessBlockProcessingArtifact

ArtifactThenBlock ==
    /\ last_call.op = "process_block_processing_artifact"
    /\ Receive([height : {1}, prev_hash : {Genesis}, epoch_id : {1}], {2})

BlockThenApproval == last_call.op = "receive_block" /\ Collect(TRUE)

NextCaches ==
    \/ last_call.op = "new" /\ OnChunkHeaderReadyForInclusion
    \/ HeaderThenArtifact
    \/ ArtifactThenBlock
    \/ BlockThenApproval

SpecCaches == InitCaches /\ [][NextCaches]_vars

ShardOfTransaction(tx) == IF tx = 3 THEN 2 ELSE 1

InitReorg ==
    /\ validator_signer \in {NoSigner, Signer(2)}
    /\ produce_empty_blocks = TRUE
    /\ world \in {w \in Worlds : ~w.upgraded}
    /\ sharded_tx_pool \in {pool \in [Shards -> SUBSET Transactions] :
                              \A s \in Shards : \A tx \in pool[s] : ShardOfTransaction(tx) = s}
    /\ AtGenesis

NextReorg == OnBlockAccepted

SpecReorg == InitReorg /\ [][NextReorg]_vars

----------------------------------------------------------------------------
(* Client: process_tx *)

TX_ROUTING_HEIGHT_HORIZON == 4

\* account_id_to_shard_id of the transaction's signer: the shard layout is the same
\* in every epoch
account_id_to_shard_id(tx, epoch_id) == ShardOfTransaction(tx)

\* The first height of the epoch of a block
get_epoch_start_height(block) == (EpochOfBlock(block) - 1) * EpochLength

\* The chunk producer horizon blocks after the head, the next block counted as the first
find_chunk_producer_for_forwarding(epoch_id, shard_id, horizon) ==
    get_chunk_producer(epoch_id, BlockHeight(head) + horizon - 1, shard_id)

\* Option<EpochId>: the empty set is None
get_next_epoch_id_if_at_boundary ==
    IF is_next_block_epoch_start(head) THEN {}
    ELSE IF BlockHeight(head) + TX_ROUTING_HEIGHT_HORIZON
                >= get_epoch_start_height(head) + EpochLength
    THEN {get_next_epoch_id_from_prev_block(head)}
    ELSE {}

\* The horizons forward_tx looks at
ForwardingHorizons == (2..TX_ROUTING_HEIGHT_HORIZON) \cup {TX_ROUTING_HEIGHT_HORIZON * 2}

\* The accounts forward_tx collects before it takes the node's own account out
ForwardingValidators(epoch_id, tx) ==
    {find_chunk_producer_for_forwarding(epoch_id, account_id_to_shard_id(tx, epoch_id), h) :
        h \in ForwardingHorizons}
    \cup {find_chunk_producer_for_forwarding(next, account_id_to_shard_id(tx, next), h) :
            next \in get_next_epoch_id_if_at_boundary, h \in ForwardingHorizons}

forward_tx_to_all(epoch_id, tx) ==
    {[validator |-> v, tx |-> tx] : v \in ForwardingValidators(epoch_id, tx)}

\* The ForwardTx messages forward_tx sends
forward_tx(epoch_id, tx) ==
    {[validator |-> v, tx |-> tx] :
        v \in ForwardingValidators(epoch_id, tx)
                 \ (IF validator_signer.kind = "Some" THEN {validator_signer.account} ELSE {})}

possibly_forward_tx_to_next_epoch(tx) ==
    IF get_next_epoch_id_if_at_boundary # {}
    THEN forward_tx(CHOOSE e \in get_next_epoch_id_if_at_boundary : TRUE, tx)
    ELSE forward_tx(EpochOfBlock(head), tx)

active_validator(shard_id) ==
    /\ validator_signer.kind = "Some"
    /\ \E i \in 1..TX_ROUTING_HEIGHT_HORIZON :
          get_chunk_producer(get_epoch_id_from_prev_block(head), BlockHeight(head) + i,
                             shard_id) = validator_signer.account

insert_transaction_nowhere(pool, shard_id, tx, has_space) ==
    [result |-> IF tx \in pool[shard_id] THEN "Duplicate"
                ELSE IF ~has_space THEN "NoSpaceLeft" ELSE "Success",
     pool |-> pool]

\* ShardedTransactionPool::insert_transaction: a transaction the pool holds is a
\* duplicate, and a new one is taken while the pool has room
insert_transaction(pool, shard_id, tx, has_space) ==
    [result |-> IF tx \in pool[shard_id] THEN "Duplicate"
                ELSE IF ~has_space THEN "NoSpaceLeft" ELSE "Success",
     pool |-> IF tx \notin pool[shard_id] /\ has_space
              THEN [pool EXCEPT ![shard_id] = @ \cup {tx}] ELSE pool]

\* What the chain store, the runtime and the pool answer for one transaction: the
\* validity period check, validate_tx without and with a state root, get_chunk_extra,
\* and whether the pool has room
TxAnswers ==
    {a \in [validity : {"Ok", "Err"}, basic : {"Ok", "Err"}, chunk_extra : {"Ok", "Err"},
            state : {"Ok", "Err"}, has_space : BOOLEAN] :
        /\ a.validity = "Err" => a.basic = "Ok"
        /\ (a.validity = "Err" \/ a.basic = "Err") => a.chunk_extra = "Ok"
        /\ (a.validity = "Err" \/ a.basic = "Err" \/ a.chunk_extra = "Err")
              => a.state = "Ok" /\ a.has_space}

TxDone(result, sent, pool) == [result |-> result, sent |-> sent, pool |-> pool]

\* A node that routes a transaction of a shard it does not track whoever sent it
process_tx_internal_routing_again(tx, is_forwarded, check_only, answers, pool) ==
    LET epoch_id == get_epoch_id_from_prev_block(head)
        shard_id == account_id_to_shard_id(tx, epoch_id)
        inserted == IF validator_signer.kind = "Some"
                    THEN insert_transaction(pool, shard_id, tx, answers.has_space)
                    ELSE [result |-> "None", pool |-> pool]
    IN  IF answers.validity = "Err" THEN TxDone("InvalidTx", {}, pool)
        ELSE IF answers.basic = "Err" THEN TxDone("InvalidTx", {}, pool)
        ELSE IF cares_about_shard_this_or_next_epoch(shard_id, TRUE)
        THEN IF answers.chunk_extra = "Err"
             THEN IF is_forwarded THEN TxDone("Err", {}, pool)
                  ELSE TxDone("RequestRouted", forward_tx(epoch_id, tx), pool)
             ELSE IF answers.state = "Err" THEN TxDone("InvalidTx", {}, pool)
             ELSE IF check_only THEN TxDone("ValidTx", {}, pool)
             ELSE IF inserted.result = "Duplicate" THEN TxDone("ValidTx", {}, inserted.pool)
             ELSE IF active_validator(shard_id)
             THEN TxDone("ValidTx",
                         IF is_forwarded THEN {} ELSE possibly_forward_tx_to_next_epoch(tx),
                         inserted.pool)
             ELSE IF ~is_forwarded
             THEN TxDone("RequestRouted", forward_tx(epoch_id, tx), inserted.pool)
             ELSE TxDone("NoResponse", {}, inserted.pool)
        ELSE IF check_only THEN TxDone("DoesNotTrackShard", {}, pool)
        ELSE TxDone("RequestRouted", forward_tx(epoch_id, tx), pool)

\* The result is the response, or "Err" where process_tx_internal returns an error
process_tx_internal(tx, is_forwarded, check_only, answers, pool) ==
    LET epoch_id == get_epoch_id_from_prev_block(head)
        shard_id == account_id_to_shard_id(tx, epoch_id)
        inserted == IF validator_signer.kind = "Some"
                    THEN insert_transaction(pool, shard_id, tx, answers.has_space)
                    ELSE [result |-> "None", pool |-> pool]
    IN  IF answers.validity = "Err" THEN TxDone("InvalidTx", {}, pool)
        ELSE IF answers.basic = "Err" THEN TxDone("InvalidTx", {}, pool)
        ELSE IF cares_about_shard_this_or_next_epoch(shard_id, TRUE)
        THEN IF answers.chunk_extra = "Err"
             THEN IF is_forwarded THEN TxDone("Err", {}, pool)
                  ELSE TxDone("RequestRouted", forward_tx(epoch_id, tx), pool)
             ELSE IF answers.state = "Err" THEN TxDone("InvalidTx", {}, pool)
             ELSE IF check_only THEN TxDone("ValidTx", {}, pool)
             ELSE IF inserted.result = "Duplicate" THEN TxDone("ValidTx", {}, inserted.pool)
             ELSE IF active_validator(shard_id)
             THEN TxDone("ValidTx",
                         IF is_forwarded THEN {} ELSE possibly_forward_tx_to_next_epoch(tx),
                         inserted.pool)
             ELSE IF ~is_forwarded
             THEN TxDone("RequestRouted", forward_tx(epoch_id, tx), inserted.pool)
             ELSE TxDone("NoResponse", {}, inserted.pool)
        ELSE IF check_only THEN TxDone("DoesNotTrackShard", {}, pool)
        ELSE IF is_forwarded THEN TxDone("NoResponse", {}, pool)
        ELSE TxDone("RequestRouted", forward_tx(epoch_id, tx), pool)

\* process_tx: an error of process_tx_internal is answered with NoResponse
process_tx(tx, is_forwarded, check_only, answers, pool) ==
    LET done == process_tx_internal(tx, is_forwarded, check_only, answers, pool)
    IN  IF done.result = "Err" THEN [done EXCEPT !.result = "NoResponse"] ELSE done

ProcessTx ==
    \E tx \in Transactions, is_forwarded \in BOOLEAN, check_only \in BOOLEAN,
       answers \in TxAnswers :
        \E done \in {process_tx(tx, is_forwarded, check_only, answers, sharded_tx_pool)} :
            /\ sharded_tx_pool' = done.pool
            /\ last_call' = [op |-> "process_tx", tx |-> tx, is_forwarded |-> is_forwarded,
                             check_only |-> check_only, answers |-> answers,
                             shard_id |-> ShardOfTransaction(tx),
                             pool |-> sharded_tx_pool, done |-> done]
            /\ UNCHANGED <<validator_signer, produce_empty_blocks, world, store, head,
                           latest_known, doomslug, pending_approvals,
                           prev_block_to_chunk_headers_ready_for_inclusion,
                           do_not_include_chunks_from, rebroadcasted_blocks, returned>>
            /\ UNCHANGED syncVars
            /\ UNCHANGED <<vsVars, fsVars>>

\* A node on one of the chains, with or without a validator key, in charge of any of
\* the shards, its pools empty
InitTx ==
    /\ validator_signer \in {NoSigner, Signer(1)}
    /\ produce_empty_blocks = TRUE
    /\ sharded_tx_pool = EmptyPool
    /\ \E cs \in {x \in ChainStates : x.pruned = {} /\ BlockA1 \in x.store} :
       \E w \in {x \in Worlds : ~x.upgraded /\ x.caught_up /\ x.tracked = {}} :
          /\ store = cs.store
          /\ head = cs.head
          /\ world = w
          /\ doomslug = [tip |-> IF cs.head = Genesis THEN DefaultHash ELSE cs.head,
                         handed |-> {}]
    /\ pending_approvals = <<>>
    /\ latest_known = [height |-> 0, seen |-> 0]
    /\ prev_block_to_chunk_headers_ready_for_inclusion = EmptyMap
    /\ do_not_include_chunks_from = <<>>
    /\ rebroadcasted_blocks = <<>>
    /\ returned = <<>>
    /\ last_call = [op |-> "new"]
    /\ IdleSync
    /\ IdleVS
    /\ IdleFS

NextTx == ProcessTx

SpecTx == InitTx /\ [][NextTx]_vars

----------------------------------------------------------------------------
(* Claims about block production *)

Produced == last_call.op \in {"produce_block", "produce_block_on"}

\* C1: a block is returned for a height only if the height is above latest_known.height
\* as the call found it; latest_known is then the block's height and raw timestamp, and
\* a failed save returns an error and no block; no height gets two blocks; and
\* latest_known.height never decreases
C1_LatestKnownGuardsProduction ==
    /\ [](Produced =>
            /\ last_call.result.kind = "Block" =>
                  /\ last_call.height > last_call.known.height
                  /\ last_call.result.block.height = last_call.height
                  /\ latest_known = [height |-> last_call.height,
                                     seen |-> last_call.result.block.raw_timestamp]
            /\ last_call.result.kind = "StoreError" =>
                  /\ last_call.result.block = NoBlock
                  /\ latest_known = last_call.known)
    /\ [](\A i, j \in DOMAIN returned : i # j => returned[i] # returned[j])
    /\ [][latest_known'.height >= latest_known.height]_vars

C1_Witness ==
    /\ Produced
    /\ last_call.result.kind = "Block"
    /\ Len(returned) >= 2

ChecksBeforeProduction(height, prev_hash) ==
    /\ validator_signer.account =
           get_block_producer(get_epoch_id_from_prev_block(prev_hash), height)
    /\ validator_signer.key =
           get_validator_by_account_id(get_epoch_id_from_prev_block(prev_hash),
                                       validator_signer.account)
    /\ is_next_block_epoch_start(prev_hash) => world.caught_up

\* C9: produce_block_on returns a block only if a signer is configured, its account is the
\* block producer of (the epoch of prev's successor, height), its public key is the
\* registered one, and prev is caught up when the next block starts an epoch; without a
\* signer the result is the BlockProducer error; when one of the other conditions fails
\* the result is None and latest_known is unchanged
C9_ProducerOnly ==
    Produced =>
        /\ last_call.result.kind = "Block" =>
              /\ validator_signer.kind # "None"
              /\ ChecksBeforeProduction(last_call.height, last_call.prev_hash)
        /\ validator_signer.kind = "None" <=> last_call.result.kind = "BlockProducerError"
        /\ (/\ validator_signer.kind # "None"
            /\ ~ChecksBeforeProduction(last_call.height, last_call.prev_hash)) =>
              /\ last_call.result.kind = "None"
              /\ latest_known = last_call.known

C9_Witness ==
    /\ Produced
    /\ last_call.result.kind = "Block"
    /\ is_next_block_epoch_start(last_call.prev_hash)

VersionAhead ==
    /\ Produced
    /\ get_epoch_protocol_version(get_epoch_id_from_prev_block(last_call.prev_hash))
           > PROTOCOL_VERSION

\* C10 (as stated): every call for a height whose epoch has a protocol version above
\* PROTOCOL_VERSION panics
C10_AlwaysPanics == VersionAhead => last_call.result.kind = "Panic"

\* C10 (amended): such a call returns no block and leaves latest_known alone; it panics
\* exactly when the checks that come first (signer, producer, height, catch-up, key,
\* empty block) all pass
C10_PanicsAfterChecks ==
    VersionAhead =>
        /\ last_call.result.kind \in {"BlockProducerError", "None", "Panic"}
        /\ last_call.result.block = NoBlock
        /\ latest_known = last_call.known
        /\ last_call.result.kind = "Panic" <=>
              /\ validator_signer.kind # "None"
              /\ ChecksBeforeProduction(last_call.height, last_call.prev_hash)
              /\ last_call.height > last_call.known.height
              /\ produce_empty_blocks \/ DOMAIN last_call.result.new_chunks # {}

C10_Witness == VersionAhead /\ last_call.result.kind = "Panic"

\* produce_block_on got past the signer check: the tip was refreshed and the checks made
ChecksMade == Produced /\ validator_signer.kind # "None"

\* C11: in every call of produce_block (produce_block_on), when the producibility checks
\* are made and the witness is read, Doomslug's tip is the hash of the chain head; set_tip
\* is called only when the tip was another hash, and then with the head's hash, the head's
\* height and the height of the head's last final block (the genesis height when that
\* hash is the default hash)
C11_TipIsHeadBeforeChecks ==
    ChecksMade =>
        /\ last_call.tip_at_checks = last_call.head
        /\ doomslug.tip = head
        /\ last_call.set_tip.kind = "None" <=> last_call.tip_before = last_call.head
        /\ last_call.set_tip.kind = "Some" =>
              /\ last_call.set_tip.hash = last_call.head
              /\ last_call.set_tip.height = BlockHeight(last_call.head)
              /\ last_call.set_tip.last_final_height =
                    IF last_final_block(last_call.head) = DefaultHash
                    THEN BlockHeight(Genesis)
                    ELSE BlockHeight(last_final_block(last_call.head))

\* A block was produced by a call that had to refresh the tip
C11_Witness ==
    /\ ChecksMade
    /\ last_call.set_tip.kind = "Some"
    /\ last_call.result.kind = "Block"

----------------------------------------------------------------------------
(* Claims about chunk inclusion *)

Blocklisted == Range(do_not_include_chunks_from)

\* The headers the cache holds for prev whose recorded producer is not banned in epoch_id
ReadyAndAllowed(epoch_id, prev) ==
    IF contains(prev_block_to_chunk_headers_ready_for_inclusion, prev)
    THEN {s \in DOMAIN peek(prev_block_to_chunk_headers_ready_for_inclusion, prev) :
            <<epoch_id,
              peek(prev_block_to_chunk_headers_ready_for_inclusion, prev)[s].chunk_producer>>
                \notin Blocklisted}
    ELSE {}

\* C8: after an artifact reported an invalid chunk of producer P in epoch E, (E, P) is in
\* do_not_include_chunks_from; get_chunk_headers_ready_for_inclusion(E, prev) returns the
\* ready headers of the producers not banned in E and no other, and
\* num_chunk_headers_ready_for_inclusion is the size of that result; a block this node
\* produces takes as new chunks exactly those headers
C8_BannedProducersExcluded ==
    /\ last_call.op = "process_block_processing_artifact" =>
          \A i \in DOMAIN last_call.invalid_chunks :
              LET chunk == last_call.invalid_chunks[i]
                  epoch_id == get_epoch_id_from_prev_block(chunk.prev_block_hash)
              IN  chunk.prev_block_hash \in store =>
                      <<epoch_id,
                        get_chunk_producer(epoch_id, chunk.height_created, chunk.shard_id)>>
                          \in Blocklisted
    /\ \A epoch_id \in 1..3, prev \in Blocks :
          LET ready == get_chunk_headers_ready_for_inclusion(epoch_id, prev)
          IN  /\ DOMAIN ready = ReadyAndAllowed(epoch_id, prev)
              /\ \A s \in DOMAIN ready :
                    ready[s] = peek(prev_block_to_chunk_headers_ready_for_inclusion, prev)[s]
              /\ num_chunk_headers_ready_for_inclusion(epoch_id, prev)
                    = Cardinality(DOMAIN ready)
    /\ (Produced /\ last_call.result.kind = "Block") =>
          LET block == last_call.result.block
          IN  \A s \in Shards :
                 block.chunks[s].header # None <=>
                     s \in ReadyAndAllowed(block.epoch_id, block.prev_hash)

\* A block was produced while the cache held a header of a banned producer and one of a
\* producer that is not banned
C8_Witness ==
    /\ Produced
    /\ last_call.result.kind = "Block"
    /\ \E s \in Shards : last_call.result.block.chunks[s].header # None
    /\ \E s \in DOMAIN peek(prev_block_to_chunk_headers_ready_for_inclusion,
                            last_call.prev_hash) :
          last_call.result.block.chunks[s].header = None

\* C28: in a block produced at height h on prev, every shard with a ready header of a
\* producer that is not banned carries a copy of that header with height_included = h,
\* every other shard carries the chunk of prev with the height_included it has there,
\* and the header in the cache of ready headers is the one it was before the block
\* was produced
C28_NewChunksStamped ==
    (Produced /\ last_call.result.kind = "Block") =>
        LET block == last_call.result.block
            ready == peek(prev_block_to_chunk_headers_ready_for_inclusion, block.prev_hash)
        IN  \A s \in Shards :
               IF s \in ReadyAndAllowed(block.epoch_id, block.prev_hash)
               THEN /\ block.chunks[s].height_included = block.height
                    /\ block.chunks[s].header.height_included = block.height
                    /\ block.chunks[s].header =
                          [ready[s].chunk_header
                              EXCEPT !.height_included = block.height]
                    /\ ready[s] = last_call.result.new_chunks[s]
                    /\ ready[s].chunk_header.height_included # block.height
               ELSE /\ block.chunks[s].header = None
                    /\ block.chunks[s].height_included
                          = BlockChunks(block.prev_hash)[s].height_included

\* A block was produced with a new chunk for one shard and the chunk of the previous
\* block for another, which was included in that block
C28_Witness ==
    /\ Produced
    /\ last_call.result.kind = "Block"
    /\ \E s \in Shards : last_call.result.block.chunks[s].header # None
    /\ \E s \in Shards :
          /\ last_call.result.block.chunks[s].header = None
          /\ last_call.result.block.chunks[s].height_included > 0

----------------------------------------------------------------------------
(* Claims about approvals *)

\* C2: an approval of a peer is handed to Doomslug only if its signature is valid for the
\* account's key in the epoch of the block that follows its parent, or in the epoch after
\* that one when the account is no validator of the former; this holds for the approvals
\* that were parked and are drained when their block arrives as well
C2_HandedApprovalsVerified ==
    \A h \in doomslug.handed :
        /\ h.parent_hash \in store
        /\ h.approval.inner.kind = "Endorsement" => h.parent_hash = h.approval.inner.hash
        /\ h.approval.inner.kind = "Skip" => BlockHeight(h.parent_hash) = h.approval.inner.height
        /\ h.approval_type = "PeerApproval" =>
              LET account_id == h.approval.account_id
                  next_block_epoch_id == EpochOfHeight(BlockHeight(h.parent_hash) + 1)
                  epoch_id == IF account_id \in EpochValidators(next_block_epoch_id)
                              THEN next_block_epoch_id
                              ELSE next_block_epoch_id + 1
              IN  /\ account_id \in EpochValidators(epoch_id)
                  /\ h.approval.signature.key = 10 * account_id + epoch_id
                  /\ h.approval.signature.data = <<h.approval.inner, h.approval.target_height>>

\* A parked approval of a peer reached Doomslug when its block was accepted
C2_Witness ==
    /\ last_call.op = "on_block_accepted"
    /\ \E h \in doomslug.handed : h.approval_type = "PeerApproval"

Accepted == last_call.op = "on_block_accepted"

\* The buckets on_block_accepted is to drain for the block it was called for
BucketsOf(block) == {Endorsement(block), Skip(BlockHeight(block))}

\* Every approval the handler found in the buckets of its block went to
\* collect_block_approval with its approval type, and the buckets are gone
BucketsDrained ==
    /\ \A i \in DOMAIN pending_approvals :
          pending_approvals[i].inner \notin BucketsOf(last_call.block)
    /\ \A i \in DOMAIN last_call.parked :
          last_call.parked[i].inner \in BucketsOf(last_call.block) =>
              \A a \in DOMAIN last_call.parked[i].approvals :
                  last_call.parked[i].approvals[a] \in last_call.collected

\* C12 (as stated): after on_block_accepted for a block, whatever its provenance,
\* pending_approvals has no bucket for Endorsement(hash) or Skip(height) and every approval
\* of those buckets was passed to collect_block_approval with its approval type
C12_DrainedWhateverProvenance == Accepted => BucketsDrained

\* C12 (amended): that holds after on_block_accepted for a block of provenance NONE; for
\* a block the node produced or received during sync no approval is collected and
\* pending_approvals is left as it was
C12_DrainedWhenReceived ==
    Accepted =>
        IF last_call.provenance = "NONE" THEN BucketsDrained
        ELSE last_call.collected = {} /\ pending_approvals = last_call.parked

\* A received block was accepted while an approval for it was parked
C12_Witness ==
    /\ Accepted
    /\ last_call.provenance = "NONE"
    /\ last_call.collected # {}
    /\ pending_approvals # last_call.parked

Collected == last_call.op = "collect_block_approval"

\* The signature check of the last call passed, or there was none to make
CheckPassed ==
    \/ last_call.approval_type = "SelfApproval"
    \/ /\ last_call.parent_hash \in store
       /\ LET account_id == last_call.approval.account_id
               next_block_epoch_id == EpochOfHeight(BlockHeight(last_call.parent_hash) + 1)
               epoch_id == IF account_id \in EpochValidators(next_block_epoch_id)
                           THEN next_block_epoch_id
                           ELSE next_block_epoch_id + 1
           IN  /\ account_id \in EpochValidators(epoch_id)
               /\ last_call.approval.signature =
                      [key |-> 10 * account_id + epoch_id,
                       data |-> <<last_call.approval.inner, last_call.approval.target_height>>]

\* The node is the block producer for the approval's target height
IsBlockProducer ==
    /\ validator_signer.kind # "None"
    /\ last_call.parent_hash \in store
    /\ validator_signer.account =
           get_block_producer(EpochOfHeight(BlockHeight(last_call.parent_hash) + 1),
                              last_call.approval.target_height)

ParentHeaderKnown == last_call.parent_hash \in store \ world.pruned

\* C13: collect_block_approval on an approval whose signature check passed, or on a self
\* approval, hands the approval to Doomslug iff the node is the block producer for the
\* target height in the epoch of the parent's successor; when it is not and the parent's
\* header is unknown the approval is pending_approvals[inner][account_id] afterwards; when
\* it is not and the header is known pending_approvals is unchanged
C13_HandedParkedOrDiscarded ==
    (Collected /\ CheckPassed) =>
        /\ doomslug.handed =
              IF IsBlockProducer
              THEN {[approval |-> last_call.approval,
                     approval_type |-> last_call.approval_type,
                     parent_hash |-> last_call.parent_hash]}
              ELSE {}
        /\ (~IsBlockProducer /\ ~ParentHeaderKnown) =>
              \E i \in DOMAIN pending_approvals :
                  /\ pending_approvals[i].inner = last_call.approval.inner
                  /\ last_call.approval.account_id \in DOMAIN pending_approvals[i].approvals
                  /\ pending_approvals[i].approvals[last_call.approval.account_id] =
                        [approval |-> last_call.approval,
                         approval_type |-> last_call.approval_type]
        /\ (~IsBlockProducer /\ ParentHeaderKnown) =>
              pending_approvals = last_call.parked
        /\ IsBlockProducer => pending_approvals = last_call.parked

\* An approval with a valid signature was parked: the node produces no block for its
\* target height and has not got the header of its parent
C13_Witness ==
    /\ Collected
    /\ CheckPassed
    /\ last_call.approval_type = "PeerApproval"
    /\ ~IsBlockProducer
    /\ ~ParentHeaderKnown
    /\ pending_approvals # last_call.parked

----------------------------------------------------------------------------
(* Client: accepted blocks, with what the handler was given and what it sent *)

AcceptAndRecord == Accept(TRUE)

\* Every transaction in the pool of its shard
FullPool == [s \in Shards |-> {tx \in Transactions : ShardOfTransaction(tx) = s}]

\* A node on one of the chains, with or without a validator key, its pools empty or full
InitAccept ==
    /\ validator_signer \in {NoSigner, Signer(1)}
    /\ produce_empty_blocks = TRUE
    /\ sharded_tx_pool \in {EmptyPool, FullPool}
    /\ \E cs \in {x \in ChainStates : x.pruned = {}} : \E w \in {x \in Worlds : ~x.upgraded} :
          /\ store = cs.store
          /\ head = cs.head
          /\ world = w
          /\ doomslug = [tip |-> IF cs.head = Genesis THEN DefaultHash ELSE cs.head,
                         handed |-> {}]
    /\ pending_approvals = <<>>
    /\ latest_known = [height |-> 0, seen |-> 0]
    /\ prev_block_to_chunk_headers_ready_for_inclusion = EmptyMap
    /\ do_not_include_chunks_from = <<>>
    /\ rebroadcasted_blocks = <<>>
    /\ returned = <<>>
    /\ last_call = [op |-> "new"]
    /\ IdleSync
    /\ IdleVS
    /\ IdleFS

NextAccept == AcceptAndRecord

SpecAccept == InitAccept /\ [][NextAccept]_vars

----------------------------------------------------------------------------
(* Client: the stall timer *)

MaxClock == 4

\* config: the stall timeouts the timer is checked with, in ticks
StallTimeouts == {0, 1, 2}

\* What the handlers of the chain do not touch when no block is accepted
handlerVars == <<validator_signer, produce_empty_blocks, world, store, head, latest_known,
                 doomslug, pending_approvals, sharded_tx_pool,
                 prev_block_to_chunk_headers_ready_for_inclusion,
                 do_not_include_chunks_from, rebroadcasted_blocks, returned>>

stalled_at_timeout(now, stall_timeout, is_syncing) ==
    now >= last_time_head_progress_made + stall_timeout /\ ~is_syncing

\* The condition of check_head_progress_stalled
stalled(now, stall_timeout, is_syncing) ==
    now > last_time_head_progress_made + stall_timeout /\ ~is_syncing

\* check_head_progress_stalled: the clock is read for the condition and, when the head
\* block was sent, once more for the new last_time_head_progress_made
CheckHeadProgressStalled ==
    \E stall_timeout \in StallTimeouts, is_syncing \in BOOLEAN,
       now \in clock..Min(clock + 2, MaxClock) :
        \E again \in IF stalled(now, stall_timeout, is_syncing)
                     THEN now..Min(now + 1, MaxClock) ELSE {now} :
            /\ clock' = again
            /\ last_time_head_progress_made' =
                  IF stalled(now, stall_timeout, is_syncing)
                  THEN again ELSE last_time_head_progress_made
            /\ head_rebroadcasts' =
                  IF stalled(now, stall_timeout, is_syncing)
                  THEN Append(head_rebroadcasts, [now |-> now, stall_timeout |-> stall_timeout])
                  ELSE head_rebroadcasts
            /\ last_call' = [op |-> "check_head_progress_stalled",
                             stall_timeout |-> stall_timeout, is_syncing |-> is_syncing,
                             now |-> now, again |-> again,
                             before |-> last_time_head_progress_made,
                             sent |-> IF stalled(now, stall_timeout, is_syncing)
                                      THEN {[kind |-> "Block", block |-> head]} ELSE {}]
            /\ UNCHANGED <<catchup_state_syncs, state_sync_adapter>>
            /\ UNCHANGED handlerVars
            /\ UNCHANGED <<vsVars, fsVars>>

head_progress_forgotten(last_time_head_updated) == last_time_head_updated

\* max(self.chain.get_last_time_head_updated(), self.last_time_head_progress_made)
head_progress(last_time_head_updated) ==
    IF last_time_head_updated >= last_time_head_progress_made
    THEN last_time_head_updated ELSE last_time_head_progress_made

\* postprocess_ready_blocks when the chain hands back one accepted block; the chain
\* updated its head at some time up to now
PostprocessReadyBlocks ==
    \E now \in clock..Min(clock + 1, MaxClock) : \E last_time_head_updated \in 0..now :
        /\ clock' = now
        /\ last_time_head_progress_made' = head_progress(last_time_head_updated)
        /\ UNCHANGED <<catchup_state_syncs, state_sync_adapter, head_rebroadcasts>>
        /\ AcceptBlock(FALSE)

\* postprocess_ready_blocks when no block is ready
PostprocessNoBlocks ==
    \E now \in clock..Min(clock + 1, MaxClock) : \E last_time_head_updated \in 0..now :
        /\ clock' = now
        /\ last_time_head_progress_made' = head_progress(last_time_head_updated)
        /\ last_call' = [op |-> "postprocess_ready_blocks"]
        /\ UNCHANGED <<catchup_state_syncs, state_sync_adapter, head_rebroadcasts>>
        /\ UNCHANGED handlerVars
        /\ UNCHANGED <<vsVars, fsVars>>

\* Client::new reads the clock for last_time_head_progress_made
InitStall ==
    /\ validator_signer = NoSigner
    /\ produce_empty_blocks = TRUE
    /\ world = QuietWorld
    /\ sharded_tx_pool = EmptyPool
    /\ \E cs \in {x \in ChainStates : x.pruned = {} /\ BlockB1 \in x.store} :
          /\ store = cs.store
          /\ head = cs.head
          /\ doomslug = [tip |-> cs.head, handed |-> {}]
    /\ latest_known = [height |-> 0, seen |-> 0]
    /\ pending_approvals = <<>>
    /\ prev_block_to_chunk_headers_ready_for_inclusion = EmptyMap
    /\ do_not_include_chunks_from = <<>>
    /\ rebroadcasted_blocks = <<>>
    /\ returned = <<>>
    /\ last_call = [op |-> "new"]
    /\ clock \in 0..1
    /\ last_time_head_progress_made = clock
    /\ catchup_state_syncs = <<>>
    /\ state_sync_adapter = [poisoned |-> FALSE, running |-> {}, received |-> <<>>]
    /\ head_rebroadcasts = <<>>
    /\ IdleVS
    /\ IdleFS

NextStall == CheckHeadProgressStalled \/ PostprocessReadyBlocks \/ PostprocessNoBlocks

SpecStall == InitStall /\ [][NextStall]_vars

----------------------------------------------------------------------------
(* Client: the sync adapter and the catch-up loop.  catchup_state_syncs maps a sync hash
   to the state of its catch-up; state_sync_adapter is the adapter behind the lock:
   whether the lock is poisoned, the shards with a running actor, and the StartSync
   messages the actors were sent. *)

\* The blocks the chain store can hold a StateSyncInfo for, each with the shards to sync
SyncHashes == {BlockA1, BlockB1}

\* The node syncs shard 1 for the one and both shards for the other
StateSyncInfos == {[sync_hash |-> BlockA1, shards |-> {1}],
                   [sync_hash |-> BlockB1, shards |-> Shards]}

\* What iterate_state_sync_infos yields: at most one info per sync hash, in any order
PendingInfos(hashes) ==
    {<<>>} \cup {<<i>> : i \in {x \in StateSyncInfos : x.sync_hash \in hashes}}
           \cup {<<i, j>> : i, j \in {x \in StateSyncInfos : x.sync_hash \in hashes}}

StartSync(shard_uid, sync_hash) ==
    [kind |-> "StartSync", shard_uid |-> shard_uid, sync_hash |-> sync_hash]

RECURSIVE NotifyShards(_, _)
NotifyShards(sync_hash, shards) ==
    IF shards = {} THEN <<>>
    ELSE LET shard_id == CHOOSE x \in shards : \A y \in shards : x <= y
         IN  <<StartSync(shard_id, sync_hash)>> \o NotifyShards(sync_hash, shards \ {shard_id})

\* One round of the loop of run_catchup. r is what the call has done so far: the
\* catch-ups registered, the messages sent, the flag notify_state_sync, whether the
\* lock was found poisoned, and how the call ends ("Ok" while it runs)
catchup_round(r, info, result, poisoned) ==
    LET is_new == info.sync_hash \notin DOMAIN r.syncs
        notify == r.notify \/ is_new
        syncs == IF is_new THEN MapPut(r.syncs, info.sync_hash, "InProgress") ELSE r.syncs
        told == [r EXCEPT !.syncs = syncs,
                          !.notify = notify,
                          !.sent = IF notify /\ ~poisoned
                                   THEN @ \o NotifyShards(info.sync_hash, info.shards)
                                   ELSE @,
                          !.found_poisoned = @ \/ (notify /\ poisoned)]
    IN  IF result = "Err" THEN [told EXCEPT !.ends = "Err"]
        ELSE IF result = "RequestBlock" THEN [told EXCEPT !.ends = "Panic"]
        ELSE IF result = "Finished"
        THEN [told EXCEPT !.syncs = MapPut(syncs, info.sync_hash, "Done"),
                          !.finished = @ \cup {info.sync_hash}]
        ELSE told

RECURSIVE catchup_loop(_, _, _, _)
catchup_loop(r, infos, results, poisoned) ==
    IF infos = <<>> \/ r.ends # "Ok" THEN r
    ELSE catchup_loop(catchup_round(r, Head(infos), Head(results), poisoned),
                      Tail(infos), Tail(results), poisoned)

\* The client is gone once a handler has panicked or the client was dropped
Gone == last_call.op = "drop" \/ (last_call.op \in {"Client::new", "run_catchup"}
                                    /\ last_call.ends = "Panic")

\* Client::new, the part that starts the sync actors
ClientNew ==
    /\ last_call.op = "start"
    /\ \E state_sync_enabled \in BOOLEAN :
          LET locks == state_sync_enabled
              panics == locks /\ state_sync_adapter.poisoned
          IN  /\ state_sync_adapter' =
                    IF locks /\ ~panics THEN [state_sync_adapter EXCEPT !.running = Shards]
                    ELSE state_sync_adapter
              /\ last_call' = [op |-> "Client::new", state_sync_enabled |-> state_sync_enabled,
                               found_poisoned |-> panics,
                               ends |-> IF panics THEN "Panic" ELSE "Ok"]
    /\ UNCHANGED <<clock, last_time_head_progress_made, catchup_state_syncs,
                   head_rebroadcasts>>
    /\ UNCHANGED handlerVars
    /\ UNCHANGED <<vsVars, fsVars>>

\* A sync actor's thread panics while it holds the lock
PoisonLock ==
    /\ last_call.op # "start"
    /\ ~Gone
    /\ ~state_sync_adapter.poisoned
    /\ state_sync_adapter' = [state_sync_adapter EXCEPT !.poisoned = TRUE]
    /\ UNCHANGED <<clock, last_time_head_progress_made, catchup_state_syncs,
                   head_rebroadcasts, last_call>>
    /\ UNCHANGED handlerVars
    /\ UNCHANGED <<vsVars, fsVars>>

\* Client::run_catchup over the infos of the catch-ups that are not finished;
\* state_sync.run and the catch-up of blocks answer for each of them, and the blocks of
\* a finished catch-up may have brought an invalid chunk
RunCatchup ==
    /\ last_call.op # "start"
    /\ ~Gone
    /\ \E infos \in PendingInfos({h \in SyncHashes :
                                     h \notin DOMAIN catchup_state_syncs
                                     \/ catchup_state_syncs[h] # "Done"}) :
       \E results \in [1..Len(infos) ->
                          {"InProgress", "Completed", "Finished", "RequestBlock", "Err"}] :
       \E invalid_chunks \in {<<>>, <<ChunkHeader(Genesis, 1)>>} :
       \E done \in {catchup_loop([syncs |-> catchup_state_syncs, sent |-> <<>>,
                                  notify |-> FALSE, found_poisoned |-> FALSE,
                                  finished |-> {}, ends |-> "Ok"],
                                 infos, results, state_sync_adapter.poisoned)} :
           /\ \A i, j \in DOMAIN infos : infos[i].sync_hash = infos[j].sync_hash => i = j
           /\ catchup_state_syncs' = done.syncs
           /\ state_sync_adapter' = [state_sync_adapter EXCEPT !.received = @ \o done.sent]
           /\ do_not_include_chunks_from' =
                 IF done.finished # {}
                 THEN BanAll(do_not_include_chunks_from, invalid_chunks)
                 ELSE do_not_include_chunks_from
           /\ last_call' = [op |-> "run_catchup", infos |-> infos, results |-> results,
                            registered |-> DOMAIN catchup_state_syncs,
                            sent |-> done.sent, found_poisoned |-> done.found_poisoned,
                            ends |-> done.ends]
    /\ UNCHANGED <<clock, last_time_head_progress_made, head_rebroadcasts>>
    /\ UNCHANGED <<validator_signer, produce_empty_blocks, world, store, head, latest_known,
                   doomslug, pending_approvals, sharded_tx_pool,
                   prev_block_to_chunk_headers_ready_for_inclusion,
                   rebroadcasted_blocks, returned>>
    /\ UNCHANGED <<vsVars, fsVars>>

\* Drop for Client: stop_all behind the write lock
DropClient ==
    /\ last_call.op # "start"
    /\ ~Gone
    /\ state_sync_adapter' =
          IF state_sync_adapter.poisoned THEN state_sync_adapter
          ELSE [state_sync_adapter EXCEPT !.running = {}]
    /\ last_call' = [op |-> "drop", found_poisoned |-> state_sync_adapter.poisoned,
                     ends |-> IF state_sync_adapter.poisoned THEN "Panic" ELSE "Ok"]
    /\ UNCHANGED <<clock, last_time_head_progress_made, catchup_state_syncs,
                   head_rebroadcasts>>
    /\ UNCHANGED handlerVars
    /\ UNCHANGED <<vsVars, fsVars>>

\* Before Client::new: the adapter it is given has no actor yet, and its lock may be
\* poisoned already
InitCatchup ==
    /\ validator_signer = NoSigner
    /\ produce_empty_blocks = TRUE
    /\ world = QuietWorld
    /\ sharded_tx_pool = EmptyPool
    /\ \E cs \in {x \in ChainStates : x.pruned = {} /\ SyncHashes \subseteq x.store
                                     /\ x.head = BlockA1} :
          /\ store = cs.store
          /\ head = cs.head
          /\ doomslug = [tip |-> cs.head, handed |-> {}]
    /\ latest_known = [height |-> 0, seen |-> 0]
    /\ pending_approvals = <<>>
    /\ prev_block_to_chunk_headers_ready_for_inclusion = EmptyMap
    /\ do_not_include_chunks_from = <<>>
    /\ rebroadcasted_blocks = <<>>
    /\ returned = <<>>
    /\ last_call = [op |-> "start"]
    /\ clock = 0
    /\ last_time_head_progress_made = 0
    /\ catchup_state_syncs = <<>>
    /\ state_sync_adapter \in [poisoned : BOOLEAN, running : {{}}, received : {<<>>}]
    /\ head_rebroadcasts = <<>>
    /\ IdleVS
    /\ IdleFS

NextCatchup == ClientNew \/ PoisonLock \/ RunCatchup \/ DropClient

SpecCatchup == InitCatchup /\ [][NextCatchup]_vars

----------------------------------------------------------------------------
(* Client: the two pool operations on one block *)

\* remove_transactions_for_block and then reintroduce_transactions_for_block, both for
\* the same block
RemoveThenReintroduce ==
    /\ validator_signer.kind = "Some"
    /\ \E block \in Blocks :
        \E removed \in {remove_transactions_for_block(sharded_tx_pool, block)} :
            /\ sharded_tx_pool' = reintroduce_transactions_for_block(removed, block)
            /\ last_call' = [op |-> "remove_then_reintroduce", block |-> block,
                             pool |-> sharded_tx_pool, removed |-> removed]
    /\ UNCHANGED <<validator_signer, produce_empty_blocks, world, store, head,
                   latest_known, doomslug, pending_approvals,
                   prev_block_to_chunk_headers_ready_for_inclusion,
                   do_not_include_chunks_from, rebroadcasted_blocks, returned>>
    /\ UNCHANGED syncVars
    /\ UNCHANGED <<vsVars, fsVars>>

\* A validator that holds all the blocks, any transactions in its pools
InitPool ==
    /\ validator_signer = Signer(1)
    /\ produce_empty_blocks = TRUE
    /\ world \in {w \in Worlds : ~w.upgraded /\ w.caught_up}
    /\ sharded_tx_pool \in {pool \in [Shards -> SUBSET Transactions] :
                              \A s \in Shards : \A tx \in pool[s] : ShardOfTransaction(tx) = s}
    /\ store = Blocks
    /\ head = BlockB2
    /\ doomslug = [tip |-> BlockB2, handed |-> {}]
    /\ pending_approvals = <<>>
    /\ latest_known = [height |-> 0, seen |-> 0]
    /\ prev_block_to_chunk_headers_ready_for_inclusion = EmptyMap
    /\ do_not_include_chunks_from = <<>>
    /\ rebroadcasted_blocks = <<>>
    /\ returned = <<>>
    /\ last_call = [op |-> "new"]
    /\ IdleSync
    /\ IdleVS
    /\ IdleFS

NextPool == RemoveThenReintroduce

SpecPool == InitPool /\ [][NextPool]_vars

----------------------------------------------------------------------------
(* Claims about the transaction pool *)

RECURSIVE Chain(_)
\* The blocks from b back to the genesis block
Chain(b) == IF b = Genesis THEN {Genesis} ELSE {b} \cup Chain(PrevHash(b))

IncludedTransactions(blocks) ==
    UNION {BlockChunks(b)[s].transactions : b \in blocks, s \in Shards}

\* C3: after a Reorg(prev_head) was handled, every transaction of a chunk on the abandoned
\* branch that is in no chunk of the new branch is in the pool of its shard
C3_ReorgKeepsTransactions ==
    (last_call.op = "on_block_accepted" /\ last_call.status.kind = "Reorg") =>
        \A tx \in IncludedTransactions(Chain(last_call.status.prev_head)
                                           \ Chain(last_call.block))
                    \ IncludedTransactions(Chain(last_call.block)
                                               \ Chain(last_call.status.prev_head)) :
            tx \in sharded_tx_pool[ShardOfTransaction(tx)]

\* C26: remove_transactions_for_block and then reintroduce_transactions_for_block for
\* the same block leave the transaction pool as it was before the two calls
C26_RemoveThenReintroduceIsIdentity ==
    last_call.op = "remove_then_reintroduce" => sharded_tx_pool = last_call.pool

AcceptedAs(kinds) == last_call.op = "on_block_accepted" /\ last_call.status.kind \in kinds

ChunksDistributed ==
    {i \in DOMAIN last_call.sent : last_call.sent[i].kind = "DistributeEncodedChunk"}

\* C27: on_block_accepted with the status Fork leaves the transaction pool as it was,
\* makes no chunk header ready for inclusion and sends no DistributeEncodedChunk,
\* whatever the provenance and whether or not the node is syncing
C27_ForkLeavesPoolAndChunks ==
    AcceptedAs({"Fork"}) =>
        /\ sharded_tx_pool = last_call.pool
        /\ prev_block_to_chunk_headers_ready_for_inclusion = last_call.ready
        /\ ChunksDistributed = {}

\* A fork block was accepted by a validator that is not syncing and produces a chunk on
\* top of that block's height, its pool holding transactions of the block
C27_Witness ==
    /\ AcceptedAs({"Fork"})
    /\ validator_signer.kind = "Some"
    /\ last_call.provenance = "NONE"
    /\ ~last_call.is_syncing
    /\ ~last_call.skip_produce_chunk
    /\ ShardsToProduce(last_call.block) # {}
    /\ \E s \in Shards :
          /\ cares_about_shard_this_or_next_epoch(s, TRUE)
          /\ BlockChunks(last_call.block)[s].height_included = BlockHeight(last_call.block)
          /\ BlockChunks(last_call.block)[s].transactions \cap last_call.pool[s] # {}

----------------------------------------------------------------------------
(* Claims about receive_block *)

Received == last_call.op = "receive_block"

\* The block passed the height pre-check
Passed == last_call.done.dropped = "None"

\* The handler returned without verifying, rebroadcasting or processing the block
NothingDone ==
    /\ ~last_call.done.verified
    /\ last_call.done.banned = {}
    /\ ~last_call.done.rebroadcast
    /\ rebroadcasted_blocks = last_call.rebroadcasted_blocks
    /\ last_call.done.provenance = "None"
    /\ last_call.done.requested = {}
    /\ world.processed = last_call.processed

WithinHorizon ==
    /\ last_call.tail <= last_call.block.height
    /\ last_call.block.height <= last_call.head_height + BLOCK_HORIZON - 1

\* C19 (as stated): while the node is syncing, an unrequested block passes the height
\* pre-check iff tail <= height <= head.height + BLOCK_HORIZON - 1 and the chain has not
\* processed its height; a block that does not pass is dropped without signature
\* verification, rebroadcast or processing
C19_PassesIffInRangeAndNewHeight ==
    (Received /\ last_call.is_syncing /\ ~last_call.was_requested) =>
        /\ Passed <=> (WithinHorizon /\ last_call.block.height \notin last_call.processed)
        /\ ~Passed => NothingDone

\* C19 (amended): such a block passes iff tail <= height <= head.height + BLOCK_HORIZON - 1
\* and its height has not been processed or it builds on the current head
C19_PassesIffInRangeAndNewOrOnHead ==
    (Received /\ last_call.is_syncing /\ ~last_call.was_requested) =>
        /\ Passed <=> /\ WithinHorizon
                      /\ \/ last_call.block.height \notin last_call.processed
                         \/ last_call.block.prev_hash = last_call.head_hash
        /\ ~Passed => NothingDone

\* While syncing, an unrequested block at height head + BLOCK_HORIZON - 1 passed the
\* pre-check and its processing was started
C19_Witness ==
    /\ Received
    /\ last_call.is_syncing
    /\ ~last_call.was_requested
    /\ last_call.block.height = last_call.head_height + BLOCK_HORIZON - 1
    /\ last_call.tail > 0
    /\ Passed
    /\ last_call.done.provenance = "NONE"

\* C20 (as stated): a block is dropped for its height being below tail or beyond the
\* horizon only when the node is syncing and the block was not requested
C20_HeightDropsOnlySyncingUnrequested ==
    (Received /\ last_call.done.dropped \in {"TooFarAhead", "TooFarBehind"}) =>
        (last_call.is_syncing /\ ~last_call.was_requested)

\* C20 (amended): a block is dropped for being at or beyond head.height + BLOCK_HORIZON
\* only when the node is syncing and the block was not requested; a block below tail is
\* dropped whether or not it was requested and whether or not the node is syncing
C20_HorizonDropsOnlySyncingUnrequested ==
    Received =>
        /\ last_call.done.dropped = "TooFarAhead" =>
              /\ last_call.is_syncing
              /\ ~last_call.was_requested
              /\ last_call.block.height >= last_call.head_height + BLOCK_HORIZON
        /\ last_call.block.height < last_call.tail <=>
              last_call.done.dropped = "TooFarBehind"
        /\ (last_call.was_requested \/ ~last_call.is_syncing) =>
              (Passed <=> last_call.block.height >= last_call.tail
                            /\ ~(/\ ~last_call.was_requested
                                 /\ last_call.block.prev_hash # last_call.head_hash
                                 /\ last_call.block.height \in last_call.processed))

\* A requested block beyond the horizon passed while the node was syncing
C20_Witness ==
    /\ Received
    /\ last_call.is_syncing
    /\ last_call.was_requested
    /\ last_call.block.height >= last_call.head_height + BLOCK_HORIZON
    /\ Passed
    /\ last_call.done.provenance = "SYNC"

\* The signature of the block received does not match the block producer
WrongSignature == last_call.answers.signature = "Incorrect"

\* The handler banned the sender for the header, rejected the block with
\* InvalidSignature and left the chain and the cache of rebroadcast blocks as they were
BannedAndRejected ==
    /\ last_call.done.banned = {[peer_id |-> last_call.peer_id,
                                 ban_reason |-> "BadBlockHeader"]}
    /\ last_call.done.result = "InvalidSignature"
    /\ ~last_call.done.rebroadcast
    /\ rebroadcasted_blocks = last_call.rebroadcasted_blocks
    /\ last_call.done.provenance = "None"
    /\ last_call.done.requested = {}
    /\ world.processed = last_call.processed

\* C21 (as stated): whenever a peer delivers a block whose hash or signature does not
\* match the block producer, receive_block bans that peer with BadBlockHeader, rejects
\* the block with InvalidSignature and neither rebroadcasts nor processes it
C21_WrongSignatureBans ==
    (Received /\ WrongSignature) => BannedAndRejected

\* C21 (amended): so it is for a block that passes the height pre-check; a block the
\* pre-check drops is dropped with Ok and nobody is banned, whatever its signature
C21_WrongSignatureBansIfPassed ==
    (Received /\ WrongSignature) =>
        IF Passed THEN BannedAndRejected
        ELSE NothingDone /\ last_call.done.result = "Ok"

\* A block at the head's height or after it with a wrong signature got its sender banned
C21_Witness ==
    /\ Received
    /\ WrongSignature
    /\ Passed
    /\ last_call.done.banned # {}
    /\ last_call.peer_id = 3

\* The processing of the block gave Orphan
OrphanResult == Received /\ last_call.done.result = "Orphan"

ParentRequested ==
    last_call.done.requested = {[hash |-> last_call.block.prev_hash,
                                 peer_id |-> last_call.peer_id]}

\* C22 (as stated): whenever the processing of a block received from a peer gives
\* Orphan, receive_block sends BlockRequest for the block's parent to that peer
C22_OrphanRequestsParent ==
    OrphanResult => ParentRequested

\* C22 (amended): the request is sent iff the parent is not in the orphan pool itself
C22_OrphanRequestsParentUnlessOrphan ==
    OrphanResult =>
        IF last_call.answers.is_orphan THEN last_call.done.requested = {}
        ELSE ParentRequested

\* An orphan whose parent is no orphan made the node ask the second peer for the parent
C22_Witness ==
    /\ OrphanResult
    /\ ~last_call.answers.is_orphan
    /\ last_call.peer_id = 3
    /\ last_call.done.requested # {}

\* What verify_and_rebroadcast_block asks for before it rebroadcasts
MayRebroadcast ==
    /\ Passed
    /\ last_call.answers.signature # "Incorrect"
    /\ last_call.answers.header = "Ok"
    /\ ~last_call.was_requested
    /\ ~last_call.is_syncing
    /\ \/ last_call.block.height > last_call.head_height
       \/ last_call.block.epoch_id = EpochOfBlock(last_call.head_hash)

----------------------------------------------------------------------------
(* Claims about process_tx *)

\* The last call was process_tx of a transaction to be recorded that passed the
\* validity period check and the basic validation
ValidTxToRecord ==
    /\ last_call.op = "process_tx"
    /\ ~last_call.check_only
    /\ last_call.answers.validity = "Ok"
    /\ last_call.answers.basic = "Ok"

TracksSignersShard == cares_about_shard_this_or_next_epoch(last_call.shard_id, TRUE)

ValidAgainstStateRoot ==
    /\ ValidTxToRecord
    /\ TracksSignersShard
    /\ last_call.answers.chunk_extra = "Ok"
    /\ last_call.answers.state = "Ok"

InPoolAfter == last_call.tx \in sharded_tx_pool[last_call.shard_id]

UpcomingChunkProducers ==
    {get_chunk_producer(e, BlockHeight(head) + h - 1, last_call.shard_id) :
        e \in {get_epoch_id_from_prev_block(head)} \cup get_next_epoch_id_if_at_boundary,
        h \in ForwardingHorizons}

LocalAccount == IF validator_signer.kind = "Some" THEN {validator_signer.account} ELSE {}

\* C25: process_tx without check_only of a transaction that passes the validity period
\* check and the basic validation, on a node that does not track the signer's shard in
\* this or the next epoch: a transaction that was not forwarded is sent as ForwardTx to
\* each upcoming chunk producer of the shard but the node's own account, and the answer
\* is RequestRouted; a forwarded one is sent to nobody, and the answer is NoResponse;
\* the pool stays as it was
C25_UntrackedIsRoutedOrDropped ==
    (ValidTxToRecord /\ ~TracksSignersShard) =>
        /\ sharded_tx_pool = last_call.pool
        /\ ~last_call.is_forwarded =>
              /\ last_call.done.result = "RequestRouted"
              /\ last_call.done.sent =
                    {[validator |-> v, tx |-> last_call.tx] :
                        v \in UpcomingChunkProducers \ LocalAccount}
        /\ last_call.is_forwarded =>
              /\ last_call.done.result = "NoResponse"
              /\ last_call.done.sent = {}

\* A transaction was routed by a node that is itself one of the upcoming chunk producers
C25_Witness ==
    /\ ValidTxToRecord
    /\ ~TracksSignersShard
    /\ ~last_call.is_forwarded
    /\ LocalAccount \subseteq UpcomingChunkProducers
    /\ LocalAccount # {}
    /\ last_call.done.sent # {}

----------------------------------------------------------------------------
(* Claims about the messages of on_block_accepted *)

----------------------------------------------------------------------------
(* Claims about the block Merkle tree *)

RECURSIVE Ancestors(_)
\* The hashes of the blocks from the genesis block to b
Ancestors(b) == IF b = Genesis THEN <<Genesis>> ELSE Append(Ancestors(PrevHash(b)), b)

RECURSIVE LargestPowerOfTwoBelow(_)
LargestPowerOfTwoBelow(n) == IF n <= 2 THEN 1 ELSE 2 * LargestPowerOfTwoBelow((n + 1) \div 2)

RECURSIVE MerkleRootOf(_)
\* The root of the Merkle tree over leaves: the left subtree is the largest full one
MerkleRootOf(leaves) ==
    IF Len(leaves) = 1 THEN leaves[1]
    ELSE LET k == LargestPowerOfTwoBelow(Len(leaves))
         IN  combine_hash(MerkleRootOf(SubSeq(leaves, 1, k)),
                          MerkleRootOf(SubSeq(leaves, k + 1, Len(leaves))))

\* header.block_ordinal() of a block of the chain: the genesis block is the first
BlockOrdinal(b) == Len(Ancestors(b))

\* C29: a block produced on parent P has as block_merkle_root the root of P's stored
\* partial Merkle tree after P's hash is inserted, which is the Merkle root of the hashes
\* from the genesis block to P, and as block_ordinal the number of leaves of that tree
\* after the insertion plus one, which is the block_ordinal of P plus one
C29_MerkleRootAndOrdinal ==
    (Produced /\ last_call.result.kind = "Block") =>
        LET block == last_call.result.block
            tree == merkle_insert(get_block_merkle_tree(block.prev_hash), block.prev_hash)
        IN  /\ block.block_merkle_root = merkle_root(tree)
            /\ block.block_merkle_root = MerkleRootOf(Ancestors(block.prev_hash))
            /\ tree.size = Len(Ancestors(block.prev_hash))
            /\ block.block_ordinal = tree.size + 1
            /\ block.block_ordinal = BlockOrdinal(block.prev_hash) + 1

\* A block was produced on a parent that has two blocks before it
C29_Witness ==
    /\ Produced
    /\ last_call.result.kind = "Block"
    /\ Len(Ancestors(last_call.result.block.prev_hash)) = 3

----------------------------------------------------------------------------
(* Claims about the stall timer *)

StallChecked == last_call.op = "check_head_progress_stalled"

\* The head block was sent again by the last call
HeadSentAgain == StallChecked /\ last_call.sent # {}

\* Two stall rebroadcasts that follow one another are more than the timeout apart
RebroadcastsApart ==
    \A i \in 1..(Len(head_rebroadcasts) - 1) :
        head_rebroadcasts[i + 1].now
            > head_rebroadcasts[i].now + head_rebroadcasts[i + 1].stall_timeout

----------------------------------------------------------------------------
(* Claims about the bounded caches *)

HeaderKeys(cache) == {cache[i].key : i \in DOMAIN cache}

InnerKeys(pending) == {pending[i].inner : i \in DOMAIN pending}

\* A cache of the given keys holds no key twice and no more entries than its capacity
WithinCapacity(cache, keys, cap) == Len(cache) <= cap /\ Cardinality(keys) = Len(cache)

\* A step that brought one new key into a cache that was full took the least recently
\* used key out of it and no other
EvictsLeastRecentlyUsed(cache, cache_after, keys, keys_after, cap, lru) ==
    (cache_after # cache /\ Len(cache) = cap /\ Cardinality(keys_after \ keys) = 1) =>
        keys \ keys_after = {lru}

\* C32: the four caches stay within their capacities (2048 previous hashes with ready
\* headers, 1000 banned pairs, 30 rebroadcast hashes, num_block_producer_seats inner keys
\* of parked approvals), and a handler that inserts one new key into a full cache evicts
\* the least recently used entry and no other
C32_CachesBounded ==
    /\ [](/\ WithinCapacity(prev_block_to_chunk_headers_ready_for_inclusion,
                            HeaderKeys(prev_block_to_chunk_headers_ready_for_inclusion),
                            CHUNK_HEADERS_FOR_INCLUSION_CACHE_SIZE)
          /\ WithinCapacity(do_not_include_chunks_from, Range(do_not_include_chunks_from),
                            NUM_EPOCH_CHUNK_PRODUCERS_TO_KEEP_IN_BLOCKLIST)
          /\ WithinCapacity(rebroadcasted_blocks, Range(rebroadcasted_blocks),
                            NUM_REBROADCAST_BLOCKS)
          /\ WithinCapacity(pending_approvals, InnerKeys(pending_approvals),
                            num_block_producer_seats))
    /\ [][/\ EvictsLeastRecentlyUsed(
                 prev_block_to_chunk_headers_ready_for_inclusion,
                 prev_block_to_chunk_headers_ready_for_inclusion',
                 HeaderKeys(prev_block_to_chunk_headers_ready_for_inclusion),
                 HeaderKeys(prev_block_to_chunk_headers_ready_for_inclusion'),
                 CHUNK_HEADERS_FOR_INCLUSION_CACHE_SIZE,
                 prev_block_to_chunk_headers_ready_for_inclusion[1].key)
          /\ EvictsLeastRecentlyUsed(
                 do_not_include_chunks_from, do_not_include_chunks_from',
                 Range(do_not_include_chunks_from), Range(do_not_include_chunks_from'),
                 NUM_EPOCH_CHUNK_PRODUCERS_TO_KEEP_IN_BLOCKLIST,
                 do_not_include_chunks_from[1])
          /\ EvictsLeastRecentlyUsed(
                 rebroadcasted_blocks, rebroadcasted_blocks',
                 Range(rebroadcasted_blocks), Range(rebroadcasted_blocks'),
                 NUM_REBROADCAST_BLOCKS, rebroadcasted_blocks[1])
          /\ EvictsLeastRecentlyUsed(
                 pending_approvals, pending_approvals',
                 InnerKeys(pending_approvals), InnerKeys(pending_approvals'),
                 num_block_producer_seats, pending_approvals[1].inner)]_vars

\* Each of the four caches is full and has lost the entry that was its least recently
\* used one: the oldest of the entries the node started with, and the inner key that was
\* first among the parked approvals before the last approval came
C32_Witness ==
    /\ Len(prev_block_to_chunk_headers_ready_for_inclusion)
          = CHUNK_HEADERS_FOR_INCLUSION_CACHE_SIZE
    /\ 101 \notin HeaderKeys(prev_block_to_chunk_headers_ready_for_inclusion)
    /\ Len(do_not_include_chunks_from) = NUM_EPOCH_CHUNK_PRODUCERS_TO_KEEP_IN_BLOCKLIST
    /\ <<101, 1>> \notin Range(do_not_include_chunks_from)
    /\ Len(rebroadcasted_blocks) = NUM_REBROADCAST_BLOCKS
    /\ 101 \notin Range(rebroadcasted_blocks)
    /\ last_call.op = "collect_block_approval"
    /\ Len(last_call.parked) = num_block_producer_seats
    /\ Len(pending_approvals) = num_block_producer_seats
    /\ last_call.parked[1].inner \notin InnerKeys(pending_approvals)

----------------------------------------------------------------------------
(* Claims about the flat head *)

\* C33: move_flat_head never leaves the flat head above the chain's final head: a
\* request for a height above final_head.height is refused, and the flat head, the flat
\* state and the stored deltas are then as they were
C33_FlatHeadNotAboveFinal ==
    /\ [](flat_head <= chain_store.final_head)
    /\ [][(printed'.kind \in {"Header", "Error"}
             /\ printed'.height > chain_store.final_head) =>
            UNCHANGED <<flat_head, flat_state_entries_iter, flat_deltas>>]_vars

----------------------------------------------------------------------------
(* Claims about the sync adapter and the catch-up loop *)

\* C34: whenever the coordinator acquires the lock of the sync adapter and finds it
\* poisoned, at construction, during run_catchup or at drop, it panics
C34_PoisonedLockPanics ==
    (last_call.op \in {"Client::new", "run_catchup", "drop"} /\ last_call.found_poisoned) =>
        last_call.ends = "Panic"

\* C40: run_catchup sends StartSync for a sync hash only in the call and the round of
\* the loop that registers the hash in catchup_state_syncs, so that no shard is sent
\* StartSync twice for one sync hash
C40_StartSyncOnce ==
    /\ last_call.op = "run_catchup" =>
          \A i \in DOMAIN last_call.sent :
              last_call.sent[i].sync_hash \notin last_call.registered
    /\ \A i, j \in DOMAIN state_sync_adapter.received :
          state_sync_adapter.received[i] = state_sync_adapter.received[j] => i = j

----------------------------------------------------------------------------
(* Claims about the reorg of the transaction pool *)

\* The last block the chains of a and b have in common
CommonAncestor(a, b) ==
    LET shared == Range(Ancestors(a)) \cap Range(Ancestors(b))
    IN  CHOOSE x \in shared : \A y \in shared : BlockHeight(y) <= BlockHeight(x)

RECURSIVE BranchAbove(_, _)
\* The blocks from tip down to the block after ancestor, the newest first
BranchAbove(tip, ancestor) ==
    IF tip = ancestor THEN <<>> ELSE <<tip>> \o BranchAbove(PrevHash(tip), ancestor)

\* The transactions of shard s that a new chunk of a block of either list holds
OnBothBranches(s, to_reintroduce, to_remove) ==
    LET NewIn(hashes) ==
            UNION {BlockChunks(b)[s].transactions :
                       b \in {x \in Range(hashes) :
                                 BlockChunks(x)[s].height_included = BlockHeight(x)}}
    IN  NewIn(to_reintroduce) \cap NewIn(to_remove)

ReorgReconciled == AcceptedAs({"Reorg"}) /\ validator_signer.kind = "Some"

\* The walk of the last reorg lists the abandoned branch and the new branch above
\* their common ancestor, the newest block first
WalkListsBranches ==
    LET walk == ReorgWalk(last_call.block, last_call.status.prev_head, <<>>, <<>>)
        ancestor == CommonAncestor(last_call.block, last_call.status.prev_head)
    IN  /\ walk.to_reintroduce = BranchAbove(last_call.status.prev_head, ancestor)
        /\ walk.to_remove = BranchAbove(last_call.block, ancestor)

\* C35 as stated: after a reorg the walk has listed the two branches above the common
\* ancestor, and a transaction that is on both branches is in no pool
C35_ReorgWalkAndPool ==
    ReorgReconciled =>
        /\ WalkListsBranches
        /\ \A s \in Shards :
              OnBothBranches(s, BranchAbove(last_call.status.prev_head,
                                            CommonAncestor(last_call.block,
                                                           last_call.status.prev_head)),
                             BranchAbove(last_call.block,
                                         CommonAncestor(last_call.block,
                                                        last_call.status.prev_head)))
                  \cap sharded_tx_pool[s] = {}

\* C35, amended: after a reorg the walk has listed the two branches above the common
\* ancestor, and a transaction that is on both branches is in no pool of a shard the
\* node cares about (its own tracking included); the pool of any other shard is as it was
C35_ReorgWalkAndTrackedPool ==
    ReorgReconciled =>
        LET ancestor == CommonAncestor(last_call.block, last_call.status.prev_head)
            both(s) == OnBothBranches(s, BranchAbove(last_call.status.prev_head, ancestor),
                                      BranchAbove(last_call.block, ancestor))
        IN  /\ WalkListsBranches
            /\ \A s \in Shards :
                  IF cares_about_shard_this_or_next_epoch(s, TRUE)
                  THEN both(s) \cap sharded_tx_pool[s] = {}
                  ELSE sharded_tx_pool[s] \cup last_call.dropped
                          = last_call.pool[s] \cup last_call.dropped

\* A validator assigned to shard 1 left BlockA1 for BlockB2: transaction 1 is in a new
\* chunk of BlockA1 and of BlockB1, was not in the pool before, and no transaction was
\* taken out for a chunk
C35_Witness ==
    /\ ReorgReconciled
    /\ 1 \in world.assigned
    /\ 1 \in OnBothBranches(1, <<BlockA1>>, <<BlockB2, BlockB1>>)
    /\ 1 \notin last_call.pool[1]
    /\ 2 \in sharded_tx_pool[1]
    /\ last_call.dropped = {}

----------------------------------------------------------------------------
(* Claims about chunk production on an accepted block *)

\* The shards the last on_block_accepted sent DistributeEncodedChunk for
ShardsDistributed == {last_call.sent[i].shard_id : i \in ChunksDistributed}

\* C36: on_block_accepted produces and distributes a chunk of shard s for the height after
\* the accepted block iff the node has a validator signer, the status is not Fork, the
\* provenance is not SYNC, the node is not syncing, skip_produce_chunk is false, the
\* node is the chunk producer of (epoch, height + 1, s) and, when the next block starts
\* an epoch, the accepted block is caught up; the header of every such chunk is ready
\* for inclusion under the hash of the accepted block
C36_ChunkProducedIff ==
    AcceptedAs({"Next", "Fork", "Reorg"}) =>
        \A s \in Shards :
            /\ s \in ShardsDistributed <=>
                  /\ validator_signer.kind = "Some"
                  /\ last_call.status.kind # "Fork"
                  /\ last_call.provenance # "SYNC"
                  /\ ~last_call.is_syncing
                  /\ ~last_call.skip_produce_chunk
                  /\ get_chunk_producer(get_epoch_id_from_prev_block(last_call.block),
                                        BlockHeight(last_call.block) + 1, s)
                        = validator_signer.account
                  /\ is_next_block_epoch_start(last_call.block) =>
                        prev_block_is_caught_up(last_call.block)
            /\ s \in ShardsDistributed =>
                  /\ contains(prev_block_to_chunk_headers_ready_for_inclusion, last_call.block)
                  /\ s \in DOMAIN peek(prev_block_to_chunk_headers_ready_for_inclusion,
                                       last_call.block)
                  /\ peek(prev_block_to_chunk_headers_ready_for_inclusion,
                          last_call.block)[s]
                        = [chunk_header |-> ChunkHeader(last_call.block, s),
                           chunk_producer |-> validator_signer.account]

\* A validator accepted a block that is caught up and after which an epoch starts, and
\* distributed a chunk for one shard and none for the other
C36_Witness ==
    /\ AcceptedAs({"Next", "Reorg"})
    /\ is_next_block_epoch_start(last_call.block)
    /\ ShardsDistributed # {}
    /\ ShardsDistributed # Shards

----------------------------------------------------------------------------
(* Claims about select_validators *)

RECURSIVE Ranked(_)
\* The proposals by stake, the largest first, and by account id among equal stakes
Ranked(props) ==
    IF props = {} THEN <<>>
    ELSE LET top == CHOOSE p \in props :
                       \A q \in props \ {p} :
                           q.stake < p.stake \/ (q.stake = p.stake /\ q.account > p.account)
         IN  <<top>> \o Ranked(props \ {top})

RECURSIVE StakeUpTo(_, _)
StakeUpTo(ordered, i) == IF i = 0 THEN 0 ELSE ordered[i].stake + StakeUpTo(ordered, i - 1)

\* The length of the longest prefix of at most max proposals each of which has more than
\* ratio of the stake of the prefix that ends with it
LongestPrefix(ordered, max, ratio) ==
    LET Good(k) == \A i \in 1..k :
                       ordered[i].stake * ratio[2] > ratio[1] * StakeUpTo(ordered, i)
    IN  CHOOSE k \in 0..Min(max, Len(ordered)) :
            Good(k) /\ \A j \in (k + 1)..Min(max, Len(ordered)) : ~Good(j)

\* What select_validators returned for the heap is the longest prefix, and the heap
\* is left with the other proposals
SelectsLongestPrefix(heap, max, ratio) ==
    LET sel == select_validators(heap, max, ratio, versions.FixStakingThreshold)
        ordered == Ranked(Range(heap))
        k == LongestPrefix(ordered, max, ratio)
    IN  ~sel.panicked =>
            /\ sel.validators = SubSeq(ordered, 1, k)
            /\ Len(sel.heap) = Len(ordered) - k
            /\ Range(sel.heap) = Range(SubSeq(ordered, k + 1, Len(ordered)))

ChunkProducerRatio ==
    <<epoch_config.minimum_stake_ratio[1],
      epoch_config.minimum_stake_ratio[2] * epoch_config.num_shards>>

\* C37: select_validators returns the longest prefix, of at most max_number_selected, of
\* the proposals ordered by stake (descending) and account id (ascending) in which every
\* member has more than min_stake_ratio of the stake of the members up to and including
\* it; the first rejected proposal and those ranked below stay in the heap; with
\* ChunkOnlyProducers the block producers are a prefix of the chunk producers, and
\* without it the validators of the epoch are that prefix
C37_LongestPrefixSelected ==
    \A heap \in ProposalHeaps(RolledOver(proposals).by_account) :
        LET seats == epoch_config.num_block_producer_seats
            bp == select_block_producers(heap, seats, epoch_config.minimum_stake_ratio,
                                         versions.FixStakingThreshold)
            cp == select_chunk_producers(heap,
                                         seats + epoch_config.num_chunk_only_producer_seats,
                                         epoch_config.minimum_stake_ratio,
                                         epoch_config.num_shards,
                                         versions.FixStakingThreshold)
        IN  /\ SelectsLongestPrefix(heap, seats, epoch_config.minimum_stake_ratio)
            /\ SelectsLongestPrefix(heap, seats + epoch_config.num_chunk_only_producer_seats,
                                    ChunkProducerRatio)
            /\ (versions.ChunkOnlyProducers /\ ~bp.panicked /\ ~cp.panicked) =>
                  bp.validators = SubSeq(cp.validators, 1, Len(bp.validators))
            /\ (epoch_info # None /\ epoch_info.kind = "Ok" /\ ~versions.ChunkOnlyProducers) =>
                  epoch_info.validators =
                      SubSeq(Ranked(Range(heap)), 1,
                             LongestPrefix(Ranked(Range(heap)), seats,
                                           epoch_config.minimum_stake_ratio))

\* An epoch was selected without chunk-only producers from three proposals or more, of
\* which the stake ratio let one in and kept another out though a seat was free
C37_Witness ==
    /\ epoch_info # None
    /\ epoch_info.kind = "Ok"
    /\ ~versions.ChunkOnlyProducers
    /\ Cardinality(DOMAIN RolledOver(proposals).by_account) >= 3
    /\ Len(epoch_info.validators) >= 1
    /\ Len(epoch_info.validators) < epoch_config.num_block_producer_seats

----------------------------------------------------------------------------
(* Claims about forwarded transactions *)

\* C38: process_tx of a forwarded transaction sends no ForwardTx and does not answer
\* RequestRouted, whatever the transaction, the shards the node tracks, its role as a
\* validator and check_only
C38_ForwardedNotForwardedAgain ==
    (last_call.op = "process_tx" /\ last_call.is_forwarded) =>
        /\ last_call.done.sent = {}
        /\ last_call.done.result # "RequestRouted"

\* A forwarded transaction of a shard the node does not track, which the node would
\* have routed to a validator had a client sent it
C38_Witness ==
    /\ last_call.op = "process_tx"
    /\ last_call.is_forwarded
    /\ ~last_call.check_only
    /\ last_call.answers.validity = "Ok"
    /\ last_call.answers.basic = "Ok"
    /\ ~cares_about_shard_this_or_next_epoch(last_call.shard_id, TRUE)
    /\ forward_tx(get_epoch_id_from_prev_block(head), last_call.tx) # {}
    /\ last_call.done.result = "NoResponse"

----------------------------------------------------------------------------
(* Claims about what displaces a parked approval *)

\* The approvals of pending_approvals, each with its bucket and its account
ParkedEntries(pending) ==
    UNION {{[inner |-> pending[i].inner, account_id |-> a, value |-> pending[i].approvals[a]] :
               a \in DOMAIN pending[i].approvals} : i \in DOMAIN pending}

\* No block of the tree is a parent for which the account's key signed the approval
SignatureInvalid(approval) ==
    \A parent_hash \in ParentChoices(Blocks, approval.inner) :
        ~SignatureAccepted(approval, "PeerApproval", parent_hash)

\* The bucket of the entry was the least recently used one of a full cache and is gone
BucketEvicted(e) ==
    /\ Len(last_call.parked) = num_block_producer_seats
    /\ last_call.parked[1].inner = e.inner
    /\ \A i \in DOMAIN pending_approvals : pending_approvals[i].inner # e.inner

\* The entry waited for the block that was accepted
ParentAccepted(e) == Accepted /\ e.inner \in BucketsOf(last_call.block)

\* The call was given an approval of the entry's account for the entry's bucket, and
\* checked its signature
ReplacedByVerified(e) ==
    /\ Collected
    /\ last_call.approval.inner = e.inner
    /\ last_call.approval.account_id = e.account_id
    /\ CheckPassed

\* C39: a parked approval is removed or replaced only by the acceptance of its parent
\* block, by the eviction of its bucket, or by another approval of its account whose
\* signature was verified; a peer approval with an invalid signature never enters
\* pending_approvals
C39_ParkedDisplacedOnlyByVerified ==
    (Collected \/ Accepted) =>
        /\ \A e \in ParkedEntries(last_call.parked) \ ParkedEntries(pending_approvals) :
              BucketEvicted(e) \/ ParentAccepted(e) \/ ReplacedByVerified(e)
        /\ \A e \in ParkedEntries(pending_approvals) \ ParkedEntries(last_call.parked) :
              e.value.approval_type = "PeerApproval" => ~SignatureInvalid(e.value.approval)

====
